---------------------------- MODULE Spec2Model ----------------------------
(***************************************************************************)
(* A model of the LangSmith starter kit's provisioning layer               *)
(* (src/setup/*.py): the trajectory scorer evaluate_extra_steps, the       *)
(* manual experiment runner run_trajectory_experiment, the prompt commit   *)
(* push api_push_prompt_commit, the evaluator registry load_evaluators     *)
(* and the queue/automation registry load_automations_and_queues.          *)
(* The remote platform is part of the state; every HTTP call is a step     *)
(* that reads or changes it, or is answered by a transport failure.        *)
(***************************************************************************)
EXTENDS Integers, Sequences, FiniteSets, TLC

(***************************************************************************)
(* Bounds of the model.                                                    *)
(***************************************************************************)
MaxLen == 3
MaxExamples == 2
MaxPushes == 2
MaxPasses == 2
MaxLoads == 1
MaxRules == 2
MaxWorkers == 2

(***************************************************************************)
(* Trajectory Aligner: src/setup/experiments.py, evaluate_extra_steps.     *)
(***************************************************************************)
VARIABLES observed, reference, i, j, unmatched_steps, apc

alignVars == <<observed, reference, i, j, unmatched_steps, apc>>

\* Lower-cased tool-call names, as extract_tool_calls produces them.
ActionNames == {"write_email", "schedule_meeting", "done"}

SeqsUpTo(S, n) == UNION {[1..m -> S] : m \in 0..n}

Trajectories == SeqsUpTo(ActionNames, MaxLen)

\* Line 43: the comparison of one reference step with one observed step.
StepMatchesNever(r, o) == FALSE
StepMatchesAlways(r, o) == TRUE
StepMatches(r, o) == r = o

\* Line 42: the loop condition (Python indices are 0-based).
LoopCond(ref, obs, ii, jj) == ii < Len(ref) /\ jj < Len(obs)

\* Line 46: a step that is not the awaited reference step is charged.
ChargeNothing(u) == u
ChargeTwice(u) == u + 2
Charge(u) == u + 1

\* Line 50: the observed steps left when the loop ends are all charged.
RemainingNone(obs, jj) == 0
Remaining(obs, jj) == Len(obs) - jj

\* The whole function, as the loop computes it from pointers (ii, jj) on.
RECURSIVE ExtraStepsFrom(_, _, _, _, _)
ExtraStepsFrom(obs, ref, ii, jj, u) ==
    IF LoopCond(ref, obs, ii, jj)
    THEN IF StepMatches(ref[ii + 1], obs[jj + 1])
         THEN ExtraStepsFrom(obs, ref, ii + 1, jj + 1, u)
         ELSE ExtraStepsFrom(obs, ref, ii, jj + 1, Charge(u))
    ELSE u + Remaining(obs, jj)

evaluate_extra_steps(obs, ref) == ExtraStepsFrom(obs, ref, 0, 0, 0)

AlignInit ==
    /\ observed \in Trajectories
    /\ reference \in Trajectories
    /\ i = 0
    /\ j = 0
    /\ unmatched_steps = 0
    /\ apc = "loop"

\* The scorer at rest, while another component runs.
AlignIdle ==
    /\ observed = <<>>
    /\ reference = <<>>
    /\ i = 0
    /\ j = 0
    /\ unmatched_steps = 0
    /\ apc = "idle"

\* Lines 43-44, 47: a match advances both pointers.
LoopMatch ==
    /\ apc = "loop"
    /\ LoopCond(reference, observed, i, j)
    /\ StepMatches(reference[i + 1], observed[j + 1])
    /\ i' = i + 1
    /\ j' = j + 1
    /\ UNCHANGED <<observed, reference, unmatched_steps, apc>>

\* Lines 45-47: a mismatch charges the observed step and advances j only.
LoopMismatch ==
    /\ apc = "loop"
    /\ LoopCond(reference, observed, i, j)
    /\ ~StepMatches(reference[i + 1], observed[j + 1])
    /\ unmatched_steps' = Charge(unmatched_steps)
    /\ j' = j + 1
    /\ UNCHANGED <<observed, reference, i, apc>>

\* Lines 49-55: the loop ends; the rest of observed is charged; return.
LoopExit ==
    /\ apc = "loop"
    /\ ~LoopCond(reference, observed, i, j)
    /\ unmatched_steps' = unmatched_steps + Remaining(observed, j)
    /\ apc' = "returned"
    /\ UNCHANGED <<observed, reference, i, j>>


(***************************************************************************)
(* Experiment Runner, manual strategy: src/setup/experiments.py,           *)
(* run_trajectory_experiment(use_api=True) and the api_* helpers.          *)
(***************************************************************************)
VARIABLES dataset_found, examples, epc, ex, session_id, run_id, outputs,
          eval_res, run_summaries, calls

expVars == <<dataset_found, examples, epc, ex, session_id, run_id, outputs,
             eval_res, run_summaries, calls>>

\* Reference trajectories of the dataset's examples, and the trajectories the
\* agent under test may produce.
ReferenceChoices == {<<>>, <<"write_email">>, <<"write_email", "done">>}
OutputChoices == {<<>>, <<"write_email">>, <<"done", "write_email">>}

\* Python's None where an id is expected, and the score of a call that carries none.
None == 0
NoScore == -1

Call(op, e, r, sc, ok) == [op |-> op, ex |-> e, run |-> r, score |-> sc, ok |-> ok]

Issued(op) == {n \in 1..Len(calls) : calls[n].op = op}
NumIssued(op) == Cardinality(Issued(op))

\* Lines 174-175: a failed feedback log is printed and the loop goes on.
AfterFeedbackFailureRaises == "raised"
AfterFeedbackFailure == "append"

ExpInit ==
    /\ dataset_found \in BOOLEAN
    /\ examples \in SeqsUpTo(ReferenceChoices, MaxExamples)
    /\ epc = "get_dataset"
    /\ ex = 0
    /\ session_id = None
    /\ run_id = None
    /\ outputs = <<>>
    /\ eval_res = NoScore
    /\ run_summaries = <<>>
    /\ calls = <<>>

\* The runner at rest, while another component runs.
ExpIdle ==
    /\ dataset_found = FALSE
    /\ examples = <<>>
    /\ epc = "idle"
    /\ ex = 0
    /\ session_id = None
    /\ run_id = None
    /\ outputs = <<>>
    /\ eval_res = NoScore
    /\ run_summaries = <<>>
    /\ calls = <<>>

\* The dataset lookup by name (section 4.4 of the specification, step 1):
\* the id of the dataset, None when no dataset bears the name.
api_get_dataset_id(found) == IF found THEN 1 ELSE None

\* Lines 144-145: without a dataset id the experiment raises.
AfterDatasetLookupProceeds(dataset_id) == "list_examples"
AfterDatasetLookup(dataset_id) == IF dataset_id = None THEN "raised" ELSE "list_examples"

\* Lines 143-145: the dataset lookup; an unknown name raises, and so does a
\* lookup that raises itself.
GetDatasetId ==
    /\ epc = "get_dataset"
    /\ \E ok \in BOOLEAN :
        /\ calls' = Append(calls, Call("get_dataset", 0, None, NoScore, ok))
        /\ epc' = IF ok THEN AfterDatasetLookup(api_get_dataset_id(dataset_found))
                  ELSE "raised"
    /\ UNCHANGED <<dataset_found, examples, ex, session_id, run_id, outputs, eval_res, run_summaries>>

\* Line 146: the examples of the dataset.
ListExamples ==
    /\ epc = "list_examples"
    /\ \E ok \in BOOLEAN :
        /\ calls' = Append(calls, Call("list_examples", 0, None, NoScore, ok))
        /\ epc' = IF ok THEN "create_session" ELSE "raised"
    /\ UNCHANGED <<dataset_found, examples, ex, session_id, run_id, outputs, eval_res, run_summaries>>

\* Lines 147, 61-72: api_create_session; a status >= 300 raises.
CreateSession ==
    /\ epc = "create_session"
    /\ \E ok \in BOOLEAN :
        /\ calls' = Append(calls, Call("session_create", 0, None, NoScore, ok))
        /\ session_id' = IF ok THEN 1 ELSE session_id
        /\ epc' = IF ok THEN "loop" ELSE "raised"
        /\ ex' = IF ok THEN 1 ELSE ex
    /\ UNCHANGED <<dataset_found, examples, run_id, outputs, eval_res, run_summaries>>

\* Line 150: the loop goes on while an example is left.
ExamplesLeftNever(k, exs) == FALSE
ExamplesLeft(k, exs) == k <= Len(exs)

\* Lines 111-112, 155-160: api_create_run raises on a status >= 300 and the
\* loop does not catch it.
AfterCreateRunFailureContinues == "invoke"
AfterCreateRunFailure == "raised"

\* Lines 150-160, 95-113: api_create_run for the next example, under a fresh
\* uuid; a status >= 300 raises.
CreateRun ==
    /\ epc = "loop"
    /\ ExamplesLeft(ex, examples)
    /\ \E ok \in BOOLEAN :
        LET fresh == NumIssued("run_create") + 1 IN
        /\ calls' = Append(calls, Call("run_create", ex, fresh, NoScore, ok))
        /\ run_id' = IF ok THEN fresh ELSE run_id
        /\ epc' = IF ok THEN "invoke" ELSE AfterCreateRunFailure
    /\ UNCHANGED <<dataset_found, examples, ex, session_id, outputs, eval_res, run_summaries>>

\* Lines 162-164: the run is ended right after the agent has answered.
AfterInvokeScoresFirst == "score"
AfterInvoke == "end_run"

\* Lines 162, 26-33: run_email_assistant; the agent answers or raises.
InvokeAgent ==
    /\ epc = "invoke"
    /\ \/ \E out \in OutputChoices :
            /\ outputs' = out
            /\ calls' = Append(calls, Call("invoke", ex, run_id, NoScore, TRUE))
            /\ epc' = AfterInvoke
       \/ /\ calls' = Append(calls, Call("invoke", ex, run_id, NoScore, FALSE))
          /\ epc' = "raised"
          /\ UNCHANGED outputs
    /\ UNCHANGED <<dataset_found, examples, ex, session_id, run_id, eval_res, run_summaries>>

\* Lines 123-124, 164: api_end_run raises on a status >= 300 and the loop
\* does not catch it.
AfterEndRunFailureContinues == "score"
AfterEndRunFailure == "raised"

\* Lines 164, 115-124: api_end_run; a status >= 300 raises.
EndRun ==
    /\ epc = "end_run"
    /\ \E ok \in BOOLEAN :
        /\ calls' = Append(calls, Call("run_end", ex, run_id, NoScore, ok))
        /\ epc' = IF ok THEN "score" ELSE AfterEndRunFailure
    /\ UNCHANGED <<dataset_found, examples, ex, session_id, run_id, outputs, eval_res, run_summaries>>

\* Lines 150-152: the reference outputs are those of the example the
\* iteration is about.
ReferenceOutputsOfFirst(k, exs) == exs[1]
reference_outputs(k, exs) == exs[k]

\* Line 166: the outputs are scored against the example's reference.
Score ==
    /\ epc = "score"
    /\ eval_res' = evaluate_extra_steps(outputs, reference_outputs(ex, examples))
    /\ epc' = "feedback"
    /\ UNCHANGED <<dataset_found, examples, ex, session_id, run_id, outputs, run_summaries, calls>>

\* Lines 167-180: try to log the score as feedback, append the summary and
\* go on to the next example.
LogFeedback ==
    /\ epc = "feedback"
    /\ \E ok \in BOOLEAN :
        LET score == eval_res
            then == IF ok THEN "append" ELSE AfterFeedbackFailure
        IN  /\ calls' = Append(calls, Call("feedback", ex, run_id, score, ok))
            /\ IF then = "append"
               THEN /\ run_summaries' = Append(run_summaries, [run_id |-> run_id, score |-> score])
                    /\ ex' = ex + 1
                    /\ epc' = "loop"
               ELSE /\ epc' = then
                    /\ UNCHANGED <<run_summaries, ex>>
    /\ UNCHANGED <<dataset_found, examples, session_id, run_id, outputs, eval_res>>

\* Lines 181-187, 87-93: api_close_session after the loop, then return.
CloseSession ==
    /\ epc = "loop"
    /\ ~ExamplesLeft(ex, examples)
    /\ \E ok \in BOOLEAN :
        /\ calls' = Append(calls, Call("session_close", 0, None, NoScore, ok))
        /\ epc' = IF ok THEN "returned" ELSE "raised"
    /\ UNCHANGED <<dataset_found, examples, ex, session_id, run_id, outputs, eval_res, run_summaries>>

(***************************************************************************)
(* Prompt commits: src/setup/prompts.py, api_push_prompt_commit, and the   *)
(* platform's prompt repositories it talks to.  A repository's commits are *)
(* kept in push order; a commit's hash is its position in that order.      *)
(***************************************************************************)
VARIABLES repos, ppc, repo, manifest, body_parent, pcalls, history

pushVars == <<repos, ppc, repo, manifest, body_parent, pcalls, history>>

RepoNames == {"email-agent-next-action", "guardrail-example"}
Manifests == {"m1", "m2"}

NoRepo == [exists |-> FALSE, commits |-> <<>>]
EmptyRepo == [exists |-> TRUE, commits |-> <<>>]
OneCommitRepo == [exists |-> TRUE, commits |-> <<[manifest |-> "m1", parent |-> None]>>]

\* Hash of the latest commit of a repository (None when it holds none).
LatestHash(r) == Len(repos[r].commits)
LatestManifest(r) ==
    IF repos[r].commits = <<>> THEN "" ELSE repos[r].commits[Len(repos[r].commits)].manifest

\* The platform's answers (section 6 of the specification: 2xx success, 409
\* unchanged content or existing repository, 404 absent).
LatestAnswer(r) == IF repos[r].exists /\ repos[r].commits # <<>> THEN 200 ELSE 404
PushAnswer(r, m) ==
    IF ~repos[r].exists THEN 404
    ELSE IF LatestManifest(r) = m THEN 409
    ELSE 200
CreateRepoAnswer(r) == IF repos[r].exists THEN 409 ELSE 201

\* Answers that do not follow from the platform's state: a not-found (wrong
\* owner handle, hidden repository) or a server error.
OtherAnswers == {404, 500}

\* A request that raises instead of answering (a timeout, a refused connection).
Exception == -1

\* The platform stores a pushed commit under the parent the request names.
Stored(r, m, parent) ==
    [repos EXCEPT ![r].commits = Append(@, [manifest |-> m, parent |-> parent])]

\* One request of the current call of api_push_prompt_commit, with the
\* parent_commit of its body (pushes only) and the repository's latest commit
\* when it was sent.
PCall(op, status, faithful) ==
    [op |-> op, status |-> status,
     parent |-> IF op \in {"push", "retry"} THEN body_parent ELSE None,
     latest |-> LatestHash(repo), latest_manifest |-> LatestManifest(repo),
     faithful |-> faithful]

PIssued(op) == {n \in 1..Len(pcalls) : pcalls[n].op = op}

\* Lines 135-139: the parent commit taken from the latest-commit lookup.
ParentFromLookupNever(status, hash) == None
ParentFromLookup(status, hash) == IF status = 200 /\ hash # None THEN hash ELSE None

\* Lines 131-143: what the latest-commit lookup leads to.  The try block
\* around it catches every exception and a status other than 200 is only
\* skipped over, so the push follows whatever the lookup came to.
AfterLookupFailureRaises(status) == IF status = 200 THEN "push" ELSE "raised"
AfterLookup(status) == "push"

\* Lines 144-163: what the answer to the first push leads to.
AfterPushConflictRaises(status) ==
    IF status = 404 THEN "create_repo"
    ELSE IF status >= 300 THEN "raised"
    ELSE "returned_ref"
AfterPush(status) ==
    IF status = 409 THEN "returned_none"
    ELSE IF status = 404 THEN "create_repo"
    ELSE IF status >= 300 THEN "raised"
    ELSE "returned_ref"

\* Lines 152-153: the answers to the repository creation that let the push
\* be retried.
CreateRepoOkAlways(status) == TRUE
CreateRepoOkCreatedOnly(status) == status \in {200, 201}
CreateRepoOk(status) == status \in {200, 201, 409}

\* Lines 155-159: what the answer to the retried push leads to.
AfterRetryIgnoresFailure(status) ==
    IF status = 409 THEN "returned_none" ELSE "returned_ref"
AfterRetry(status) ==
    IF status = 409 THEN "returned_none"
    ELSE IF status >= 300 THEN "raised"
    ELSE "returned_ref"

Result(next) ==
    IF next = "returned_ref" THEN "ref"
    ELSE IF next = "returned_none" THEN "none"
    ELSE "raise"

PushEnded == ppc \in {"returned_ref", "returned_none", "raised"}

\* One finished call of api_push_prompt_commit, as the caller saw it.
Finished(next, newcalls) ==
    [repo |-> repo, manifest |-> manifest, result |-> Result(next),
     fresh |-> \A n \in 1..Len(newcalls) :
                  newcalls[n].op = "push" => newcalls[n].latest_manifest # manifest,
     faithful |-> \A n \in 1..Len(newcalls) : newcalls[n].faithful]

PushInit ==
    /\ repos \in [RepoNames -> {NoRepo, EmptyRepo, OneCommitRepo}]
    /\ ppc = "ready"
    /\ repo = "guardrail-example"
    /\ manifest = "m1"
    /\ body_parent = None
    /\ pcalls = <<>>
    /\ history = <<>>

\* The prompt module at rest, while another component runs.
PushIdle ==
    /\ repos = [r \in RepoNames |-> NoRepo]
    /\ ppc = "idle"
    /\ repo = "guardrail-example"
    /\ manifest = "m1"
    /\ body_parent = None
    /\ pcalls = <<>>
    /\ history = <<>>

\* Line 465: the repository load_guardrail_prompt_commits deletes before it
\* pushes its commits.
DeletedRepoOther == "email-agent-next-action"
DeletedRepo == "guardrail-example"

\* Lines 169-171: the platform's answer to the delete request.
DeleteAnswer(r) == IF repos[r].exists THEN 200 ELSE 404

\* Lines 464-465, 187-191, 165-174: load_guardrail_prompt_commits begins:
\* delete_existing_prompt deletes the repository, commits and all.  get_owner
\* (outside the try) may raise; whatever the delete request comes to is
\* swallowed, and the first load_prompt follows.
DeleteExistingPrompt ==
    /\ ppc = "ready" \/ PushEnded
    /\ Len(history) < MaxPushes
    /\ repo' = DeletedRepo
    /\ body_parent' = None
    /\ \/ /\ ppc' = "raised"
          /\ pcalls' = <<[op |-> "settings", status |-> 500, parent |-> None,
                          latest |-> LatestHash(DeletedRepo),
                          latest_manifest |-> LatestManifest(DeletedRepo),
                          faithful |-> FALSE]>>
          /\ UNCHANGED <<repos, history>>
       \/ \E status \in {DeleteAnswer(DeletedRepo), 500, Exception} :
          /\ repos' = IF status = 200 THEN [repos EXCEPT ![DeletedRepo] = NoRepo] ELSE repos
          /\ ppc' = "deleted"
          /\ pcalls' = <<[op |-> "delete", status |-> status, parent |-> None,
                          latest |-> LatestHash(DeletedRepo),
                          latest_manifest |-> LatestManifest(DeletedRepo),
                          faithful |-> status = DeleteAnswer(DeletedRepo)]>>
          /\ history' = Append(history,
                [repo |-> DeletedRepo, manifest |-> "", result |-> "deleted",
                 fresh |-> FALSE, faithful |-> status = DeleteAnswer(DeletedRepo)])
    /\ UNCHANGED manifest

\* Lines 114-116, 177-179: load_prompt(use_api=True) calls
\* api_push_prompt_commit for a repository and a manifest.
StartPush ==
    /\ ppc \in {"ready", "deleted"} \/ PushEnded
    /\ Len(history) < MaxPushes
    /\ \E r \in (IF ppc = "deleted" THEN {DeletedRepo} ELSE RepoNames), m \in Manifests :
        /\ repo' = r
        /\ manifest' = m
    /\ ppc' = "prepare"
    /\ body_parent' = None
    /\ pcalls' = <<>>
    /\ UNCHANGED <<repos, history>>

\* The end of a call: its outcome joins the history.
Step(next, newcalls) ==
    /\ ppc' = next
    /\ pcalls' = newcalls
    /\ history' = IF next \in {"returned_ref", "returned_none", "raised"}
                  THEN Append(history, Finished(next, newcalls))
                  ELSE history

\* Lines 115-130, 20-30: get_owner (the settings request) and the
\* serialisation of the manifest; either may raise.
Prepare ==
    /\ ppc = "prepare"
    /\ \E status \in {200, 500} :
        Step(IF status >= 300 THEN "raised" ELSE "lookup",
             Append(pcalls, PCall("settings", status, status = 200)))
    /\ UNCHANGED <<repos, repo, manifest, body_parent>>

\* Lines 131-142: the latest-commit lookup; the parent commit is attached
\* when it answers 200, and any failure (an exception too) is swallowed.
LookupLatest ==
    /\ ppc = "lookup"
    /\ \E status \in {LatestAnswer(repo)} \cup OtherAnswers \cup {Exception} :
        /\ body_parent' = ParentFromLookup(status, LatestHash(repo))
        /\ Step(AfterLookup(status),
                Append(pcalls, PCall("latest", status, status = LatestAnswer(repo))))
    /\ UNCHANGED <<repos, repo, manifest>>

\* Lines 143-147, 160-163: the push.
PushCommit ==
    /\ ppc = "push"
    /\ \E status \in {PushAnswer(repo, manifest)} \cup OtherAnswers :
        /\ Step(AfterPush(status),
                Append(pcalls, PCall("push", status, status = PushAnswer(repo, manifest))))
        /\ repos' = IF status = 200 THEN Stored(repo, manifest, body_parent) ELSE repos
    /\ UNCHANGED <<repo, manifest, body_parent>>

\* Lines 148-153: the repository is created after a 404.
CreateRepo ==
    /\ ppc = "create_repo"
    /\ \E status \in {CreateRepoAnswer(repo)} \cup OtherAnswers :
        /\ Step(IF CreateRepoOk(status) THEN "retry" ELSE "raised",
                Append(pcalls, PCall("create_repo", status, status = CreateRepoAnswer(repo))))
        /\ repos' = IF status = 201 THEN [repos EXCEPT ![repo] = EmptyRepo] ELSE repos
    /\ UNCHANGED <<repo, manifest, body_parent>>

\* Lines 154-159: the push is retried, with the same body.
RetryPush ==
    /\ ppc = "retry"
    /\ \E status \in {PushAnswer(repo, manifest)} \cup OtherAnswers :
        /\ Step(AfterRetry(status),
                Append(pcalls, PCall("retry", status, status = PushAnswer(repo, manifest))))
        /\ repos' = IF status = 200 THEN Stored(repo, manifest, body_parent) ELSE repos
    /\ UNCHANGED <<repo, manifest, body_parent>>

\* The client library's push_prompt (section 4.2 of the specification,
\* transport (a)): one call that performs the whole push, creating the
\* repository when it is absent, and that signals a conflict when the content
\* is unchanged.
ClientAnswer(r, m) == IF LatestManifest(r) = m THEN "conflict" ELSE "url"

\* Lines 183-185: the conflict error of the client is caught and None returned.
OnClientConflictRaises == "raised"
OnClientConflict == "returned_none"

\* Lines 177, 180-185: load_prompt(use_api=False) hands the push to the
\* client; any error other than the conflict propagates.
ClientPushPrompt ==
    /\ ppc = "ready" \/ PushEnded
    /\ Len(history) < MaxPushes
    /\ \E r \in RepoNames, m \in Manifests :
        \E outcome \in {ClientAnswer(r, m), "error"} :
            LET next == IF outcome = "conflict" THEN OnClientConflict
                        ELSE IF outcome = "url" THEN "returned_ref"
                        ELSE "raised"
                call == [op |-> "client_push",
                         status |-> IF outcome = "conflict" THEN 409
                                    ELSE IF outcome = "url" THEN 200 ELSE 500,
                         parent |-> LatestHash(r),
                         latest |-> LatestHash(r), latest_manifest |-> LatestManifest(r),
                         faithful |-> outcome = ClientAnswer(r, m)]
            IN  /\ repo' = r
                /\ manifest' = m
                /\ body_parent' = None
                /\ repos' = IF outcome = "url"
                            THEN [repos EXCEPT ![r] =
                                    [exists |-> TRUE,
                                     commits |-> Append(repos[r].commits,
                                                   [manifest |-> m, parent |-> LatestHash(r)])]]
                            ELSE repos
                /\ ppc' = next
                /\ pcalls' = <<call>>
                /\ history' = Append(history,
                      [repo |-> r, manifest |-> m, result |-> Result(next),
                       fresh |-> LatestManifest(r) # m,
                       faithful |-> outcome = ClientAnswer(r, m)])

(***************************************************************************)
(* Evaluator registry: src/setup/evaluators.py, load_evaluators, and the   *)
(* platform's run rules (evaluators and automations share one listing).    *)
(***************************************************************************)
VARIABLES rules, targets_resolved, prompts_present, use_api, vpc, pass, idx,
          target, payloads, creates, answered, passes, vcalls, vlast, body

\* The run rules belong to the platform: both registries read and write them.
evalOwn == <<targets_resolved, prompts_present, use_api, vpc, pass, idx, target,
             payloads, creates, answered, passes, vcalls, vlast, body>>

evalVars == <<rules, evalOwn>>

\* Lines 239-308: the five evaluators load_evaluators provisions.
Evaluators ==
    << [name |-> "correctness", kind |-> "judge",
        ref |-> "email-agent-next-action-eval:latest",
        target_name |-> "Email Agent: Next Action", target_type |-> "dataset"],
       [name |-> "completeness", kind |-> "judge",
        ref |-> "email-agent-final-response-eval:latest",
        target_name |-> "Email Agent: Final Response", target_type |-> "dataset"],
       [name |-> "professionalism", kind |-> "judge",
        ref |-> "email-agent-professionalism-eval:latest",
        target_name |-> "LANGSMITH_PROJECT", target_type |-> "project"],
       [name |-> "triage_match", kind |-> "code", ref |-> "",
        target_name |-> "Email Agent: Triage", target_type |-> "dataset"],
       [name |-> "trajectory_match", kind |-> "code", ref |-> "",
        target_name |-> "Email Agent: Trajectory", target_type |-> "dataset"] >>

NumEvaluators == Len(Evaluators)

TargetNames == {Evaluators[n].target_name : n \in 1..NumEvaluators}
PromptRefs == {Evaluators[n].ref : n \in {m \in 1..NumEvaluators : Evaluators[m].kind = "judge"}}

\* The id the platform gives a dataset or project: here, its place in the list.
TargetId(name) == CHOOSE n \in 1..NumEvaluators : Evaluators[n].target_name = name

\* A run rule as the platform lists it; a key the request left out is None
\* (ids) or empty (bodies).
Rule(name, dataset_id, sess_id, evaluators, code_evaluators, queue_id) ==
    [display_name |-> name, dataset_id |-> dataset_id, session_id |-> sess_id,
     evaluators |-> evaluators, code_evaluators |-> code_evaluators,
     add_to_annotation_queue_id |-> queue_id]

\* Names the platform's name_contains filter relates to a searched name.
NameContains(name, part) ==
    \/ name = part
    \/ <<name, part>> \in {<<"correctness-strict", "correctness">>}

\* Lines 99-106: the listing request, filtered by the platform.
RuleListing(name, target_type, target_id) ==
    {n \in 1..Len(rules) :
        /\ NameContains(rules[n].display_name, name)
        /\ target_type = "dataset" => rules[n].dataset_id = target_id
        /\ target_type = "project" => rules[n].session_id = target_id}

\* Lines 110-117: the scan of the listing for an exact match with a body.
EvaluatorExistsJudgeOnly(name, target_type, target_id) ==
    \E n \in RuleListing(name, target_type, target_id) :
        /\ rules[n].display_name = name
        /\ rules[n].evaluators # <<>>
        /\ \/ target_type = "dataset" /\ rules[n].dataset_id = target_id
           \/ target_type = "project" /\ rules[n].session_id = target_id
EvaluatorExistsBySubstring(name, target_type, target_id) ==
    \E n \in RuleListing(name, target_type, target_id) :
        /\ (rules[n].evaluators # <<>> \/ rules[n].code_evaluators # <<>>)
        /\ \/ target_type = "dataset" /\ rules[n].dataset_id = target_id
           \/ target_type = "project" /\ rules[n].session_id = target_id
evaluator_exists(name, target_type, target_id) ==
    \E n \in RuleListing(name, target_type, target_id) :
        /\ rules[n].display_name = name
        /\ (rules[n].evaluators # <<>> \/ rules[n].code_evaluators # <<>>)
        /\ \/ target_type = "dataset" /\ rules[n].dataset_id = target_id
           \/ target_type = "project" /\ rules[n].session_id = target_id

NoPayload == [display_name |-> ""]

\* One call of the current pass, as load_evaluators saw it end: the evaluator
\* it was made for (its place in the list) and what it came to.
VCall(op, item, result) == [op |-> op, item |-> item, result |-> result]

VIssued(op, item) == {n \in 1..Len(vcalls) : vcalls[n].op = op /\ vcalls[n].item = item}

\* The latest request in full: the status it was answered with and, for
\* prompt_exists, the status of the fallback commit listing (None when that
\* request was not made).
VLast(op, item, status, fallback, result) ==
    [op |-> op, item |-> item, status |-> status, fallback |-> fallback, result |-> result]

NoCall == VLast("", 0, None, None, "")

\* Lines 142-143, 185-186: "if not target: return None".
NoTargetNever(t) == FALSE
NoTarget(t) == t = None

\* Lines 106-117: what evaluator_exists comes to, given the status of the
\* listing and whether the scan finds a match: a status >= 300 (and a request
\* that raises) is an error, never "absent".
RuleListingResultNotFoundIsEmpty(status, found) ==
    IF status = Exception \/ (status >= 300 /\ status # 404) THEN "error"
    ELSE IF status = 200 /\ found THEN "present"
    ELSE "absent"
RuleListingResult(status, found) ==
    IF status = Exception \/ status >= 300 THEN "error"
    ELSE IF found THEN "present"
    ELSE "absent"

\* The platform's answers about a prompt reference "<repo>:latest": the
\* latest commit, and the commit listing of the repository.
PromptLatestAnswer(ref) == IF ref \in prompts_present THEN 200 ELSE 404
PromptListAnswer(ref) == IF ref \in prompts_present THEN 200 ELSE 404

\* prompts.py lines 51-58: the statuses of the latest-commit request after
\* which prompt_exists asks for the commit listing: neither 200 nor 404 (a
\* request that raises is caught at line 71).
FallsBackOnNotFound(status) == status \notin {200, Exception}
FallsBack(status) == status \notin {200, 404, Exception}

\* prompts.py lines 46-72: prompt_exists, given the status of the
\* latest-commit request, the status of the fallback commit listing and
\* whether that listing holds a commit: 200 is True, 404 is False, any other
\* status falls back to the listing, and an exception is False.
PromptExistsAlways(status, list_status, has_commits) == TRUE
prompt_exists(status, list_status, has_commits) ==
    IF status = Exception THEN FALSE
    ELSE IF FallsBack(status) THEN list_status = 200 /\ has_commits
    ELSE status = 200

\* Lines 157-161: client.pull_prompt returns (200) or raises.
PullPromptFound(status) == status = 200

\* Lines 171-180, 194-203: the payload of evaluator e for the resolved target.
EvaluatorPayload(e, tgt) ==
    [display_name |-> e.name,
     session_id |-> IF e.target_type = "project" THEN tgt ELSE None,
     dataset_id |-> IF e.target_type = "dataset" THEN tgt ELSE None,
     sampling_rate |-> 1, is_enabled |-> TRUE, filter |-> "eq(is_root, true)",
     evaluators |-> IF e.kind = "judge" THEN <<"judge">> ELSE <<>>,
     code_evaluators |-> IF e.kind = "code" THEN <<"code">> ELSE <<>>]

\* Lines 26-35: the fields of an EvaluatorPayload.
PayloadKeys ==
    {"display_name", "session_id", "dataset_id", "sampling_rate", "is_enabled",
     "filter", "evaluators", "code_evaluators"}

\* Lines 209-217: the fields create_evaluator copies into the request body.
BodyKeys ==
    {"display_name", "session_id", "dataset_id", "sampling_rate", "is_enabled",
     "evaluators", "code_evaluators"}

\* A filter of None.
NoFilter == ""

\* Field k of the payload is None.
UnsetNever(k, payload) == FALSE
Unset(k, payload) ==
    IF k \in {"session_id", "dataset_id"} THEN payload[k] = None
    ELSE IF k \in {"evaluators", "code_evaluators"} THEN payload[k] = <<>>
    ELSE IF k = "filter" THEN payload[k] = NoFilter
    ELSE FALSE

\* Lines 209-219: the request body create_evaluator builds: the copied
\* fields, those that are None removed.
create_evaluator_body(payload) ==
    [k \in {f \in BodyKeys : ~Unset(f, payload)} |-> payload[k]]

\* No request body sent yet.
NoBody == [display_name |-> ""]

\* A key of a request body, or what the platform keeps for a key left out.
Field(b, k, default) == IF k \in DOMAIN b THEN b[k] ELSE default

\* Lines 221-224: the rule the platform stores for the request body.
CreatedRule(payload) ==
    LET b == create_evaluator_body(payload) IN
    Rule(b.display_name, Field(b, "dataset_id", None), Field(b, "session_id", None),
         Field(b, "evaluators", <<>>), Field(b, "code_evaluators", <<>>), None)

\* Rules that may be on the platform before the first pass: none, or an
\* empty shell under an evaluator's name, a rule whose name only contains it
\* and an evaluator left by an earlier run.
InitialRules ==
    { <<>>,
      << Rule("correctness", TargetId("Email Agent: Next Action"), None, <<>>, <<>>, None),
         Rule("correctness-strict", TargetId("Email Agent: Next Action"), None, <<"judge">>, <<>>, None),
         Rule("triage_match", TargetId("Email Agent: Triage"), None, <<>>, <<"code">>, None) >> }

EvalInit ==
    /\ rules \in InitialRules
    /\ targets_resolved \in SUBSET TargetNames
    /\ prompts_present \in SUBSET PromptRefs
    /\ use_api \in BOOLEAN
    /\ vpc = "ready"
    /\ pass = 0
    /\ idx = 1
    /\ target = None
    /\ payloads = [n \in 1..NumEvaluators |-> NoPayload]
    /\ creates = 0
    /\ answered = TRUE
    /\ passes = <<>>
    /\ vcalls = <<>>
    /\ vlast = NoCall
    /\ body = NoBody

\* The registry at rest, while another component runs; the rules are then
\* the other registry's to start from.
EvalAtRest ==
    /\ targets_resolved = {}
    /\ prompts_present = {}
    /\ use_api = FALSE
    /\ vpc = "idle"
    /\ pass = 0
    /\ idx = 1
    /\ target = None
    /\ payloads = [n \in 1..NumEvaluators |-> NoPayload]
    /\ creates = 0
    /\ answered = TRUE
    /\ passes = <<>>
    /\ vcalls = <<>>
    /\ vlast = NoCall
    /\ body = NoBody

EvalIdle == rules = <<>> /\ EvalAtRest

EvalEnded == vpc \in {"returned", "raised"}

\* Line 237: load_evaluators is called (again).
StartPass ==
    /\ vpc = "ready" \/ EvalEnded
    /\ pass < MaxPasses
    /\ pass' = pass + 1
    /\ vpc' = "resolve"
    /\ idx' = 1
    /\ target' = None
    /\ payloads' = [n \in 1..NumEvaluators |-> NoPayload]
    /\ creates' = 0
    /\ answered' = TRUE
    /\ vcalls' = <<>>
    /\ vlast' = NoCall
    /\ body' = NoBody
    /\ UNCHANGED <<rules, targets_resolved, prompts_present, use_api, passes>>

\* The payload of evaluator idx is settled (None when p = NoPayload): on to
\* the next evaluator, or to the creation loop of lines 318-325.
Settle(p) ==
    /\ payloads' = [payloads EXCEPT ![idx] = p]
    /\ idx' = IF idx < NumEvaluators THEN idx + 1 ELSE 1
    /\ vpc' = IF idx < NumEvaluators THEN "resolve" ELSE "create"

\* load_evaluators ends: the pass joins the history.
EndPass(how, n, ok) ==
    /\ vpc' = how
    /\ passes' = Append(passes, [outcome |-> how, creates |-> n, answered |-> ok])

\* A request is made: it joins the calls of the pass.
Log(op, status, fallback, result) ==
    /\ vcalls' = Append(vcalls, VCall(op, idx, result))
    /\ vlast' = VLast(op, idx, status, fallback, result)
    /\ body' = IF op = "create" THEN create_evaluator_body(payloads[idx]) ELSE body

\* Lines 141-143, 184-186, 120-136: _resolve_target_id; an unknown dataset
\* or project gives no payload, a failing client call raises.
ResolveTarget ==
    /\ vpc = "resolve"
    /\ LET e == Evaluators[idx]
           t == IF e.target_name \in targets_resolved THEN TargetId(e.target_name) ELSE None
       IN
       \/ /\ target' = t
          /\ Log("resolve", 200, None, IF t = None THEN "absent" ELSE "found")
          /\ IF NoTarget(t)
             THEN Settle(NoPayload)
             ELSE vpc' = "exists" /\ UNCHANGED <<payloads, idx>>
          /\ UNCHANGED <<passes, answered>>
       \/ /\ target' = None
          /\ Log("resolve", Exception, None, "error")
          /\ answered' = FALSE
          /\ EndPass("raised", creates, FALSE)
          /\ UNCHANGED <<payloads, idx>>
    /\ UNCHANGED <<rules, targets_resolved, prompts_present, use_api, pass, creates>>

\* Lines 145-147, 188-192, 96-117: evaluator_exists; a status >= 300 raises,
\* an existing evaluator gives no payload, a code evaluator gets its payload.
CheckEvaluatorExists ==
    /\ vpc = "exists"
    /\ \E status \in {200} \cup OtherAnswers \cup {Exception} :
        LET e == Evaluators[idx]
            result == RuleListingResult(status, evaluator_exists(e.name, e.target_type, target))
        IN  /\ Log("exists", status, None, result)
            /\ answered' = (answered /\ status = 200)
            /\ IF result = "error"
               THEN /\ EndPass("raised", creates, FALSE)
                    /\ UNCHANGED <<payloads, idx>>
               ELSE /\ UNCHANGED passes
                    /\ IF result = "present"
                       THEN Settle(NoPayload)
                       ELSE IF e.kind = "judge"
                            THEN vpc' = "verify" /\ UNCHANGED <<payloads, idx>>
                            ELSE Settle(EvaluatorPayload(e, target))
    /\ UNCHANGED <<rules, targets_resolved, prompts_present, use_api, pass, target, creates>>

\* Lines 149-180: the prompt reference of a judge evaluator is looked up:
\* prompt_exists on the direct path (get_owner, outside its try, may raise),
\* pull_prompt on the client path; a reference not found, or a failed lookup,
\* gives no payload.
VerifyPrompt ==
    /\ vpc = "verify"
    /\ LET e == Evaluators[idx] IN
       \/ /\ use_api
          /\ \E status \in {PromptLatestAnswer(e.ref)} \cup OtherAnswers \cup {Exception} :
             \E list_status \in IF FallsBack(status)
                                THEN {PromptListAnswer(e.ref), 500, Exception}
                                ELSE {None} :
                LET found == prompt_exists(status, list_status, e.ref \in prompts_present) IN
                /\ Log("verify", status, list_status, IF found THEN "present" ELSE "absent")
                /\ answered' = (answered /\ status = PromptLatestAnswer(e.ref))
                /\ Settle(IF found THEN EvaluatorPayload(e, target) ELSE NoPayload)
                /\ UNCHANGED passes
       \/ /\ use_api
          /\ Log("settings", 500, None, "error")
          /\ answered' = FALSE
          /\ EndPass("raised", creates, FALSE)
          /\ UNCHANGED <<payloads, idx>>
       \/ /\ ~use_api
          /\ \E status \in {PromptLatestAnswer(e.ref), Exception} :
                LET found == PullPromptFound(status) IN
                /\ Log("verify", status, None, IF found THEN "present" ELSE "absent")
                /\ answered' = (answered /\ (status = 200 \/ e.ref \notin prompts_present))
                /\ Settle(IF found THEN EvaluatorPayload(e, target) ELSE NoPayload)
                /\ UNCHANGED passes
    /\ UNCHANGED <<rules, targets_resolved, prompts_present, use_api, pass, target, creates>>

\* Lines 318-325, 206-224: one iteration of the creation loop; a payload of
\* None is passed over, a failed creation is printed and the loop goes on.
CreateEvaluator ==
    /\ vpc = "create"
    /\ LET last == idx = NumEvaluators
           made == IF payloads[idx] = NoPayload THEN creates ELSE creates + 1
       IN
       /\ \/ /\ payloads[idx] = NoPayload
             /\ UNCHANGED <<rules, answered, vcalls, vlast, body>>
             /\ IF last THEN EndPass("returned", made, answered)
                        ELSE UNCHANGED <<vpc, passes>>
          \/ /\ payloads[idx] # NoPayload
             /\ \E status \in {200, 500, Exception} :
                 /\ Log("create", status, None, IF status = 200 THEN "ok" ELSE "error")
                 /\ rules' = IF status = 200 THEN Append(rules, CreatedRule(payloads[idx])) ELSE rules
                 /\ answered' = (answered /\ status = 200)
                 /\ IF last THEN EndPass("returned", made, answered /\ status = 200)
                            ELSE UNCHANGED <<vpc, passes>>
       /\ creates' = made
       /\ idx' = IF last THEN idx ELSE idx + 1
    /\ UNCHANGED <<targets_resolved, prompts_present, use_api, pass, target, payloads>>

(***************************************************************************)
(* Queue and automation registry: src/setup/annotations.py,                *)
(* load_automations_and_queues, and the platform's annotation queues.      *)
(***************************************************************************)
VARIABLES queues, project_found, qpc, qpass, project_id, queue_id, qcalls, qpasses

autoVars == <<queues, project_found, qpc, qpass, project_id, queue_id, qcalls, qpasses>>

\* Lines 101-102, 127: the names load_automations_and_queues provisions.
QueueName == "Professionalism Annotation Queue"
AutomationName == "Professional Review"

ProjectId == TargetId("LANGSMITH_PROJECT")

\* Lines 59-62: the id of the first queue of that name (None without one).
QueueIdOf(name) ==
    IF \E n \in 1..Len(queues) : queues[n].name = name
    THEN queues[CHOOSE n \in 1..Len(queues) :
                    /\ queues[n].name = name
                    /\ \A m \in 1..(n - 1) : queues[m].name # name].id
    ELSE None

\* Lines 36-51: the listing request and the scan of automation_exists.
automation_exists(name, proj) ==
    \E n \in RuleListing(name, "project", proj) :
        /\ rules[n].display_name = name
        /\ (rules[n].evaluators # <<>> \/ rules[n].code_evaluators # <<>>)
        /\ rules[n].session_id = proj

\* Lines 66-73: the rule create_automation asks for, as the platform stores
\* it: an add-to-queue target and no evaluator bodies.
AutomationRule(name, proj, queue) == Rule(name, None, proj, <<>>, <<>>, queue)

\* Lines 42-51: what automation_exists comes to, given the status of the
\* listing and whether the scan finds a match.
AutomationListingResult(status, found) ==
    IF status = Exception \/ status >= 300 THEN "error"
    ELSE IF found THEN "present"
    ELSE "absent"

\* Lines 55-62: what get_queue_id comes to, given the status of the listing
\* and the id the scan finds (None without a match).
QueueListingResult(status, id) ==
    IF status = Exception \/ status >= 300 THEN "error"
    ELSE IF id # None THEN "present"
    ELSE "absent"

\* Line 116: "if not queue_id".
QueueMissingAlways(id) == TRUE
QueueMissingNever(id) == FALSE
QueueMissing(id) == id = None

\* One request of the current pass: its status, what it came to, the queue
\* id it carries or returns, and whether a queue of that id was on the
\* platform when it was sent.
QCall(op, status, result, queue) ==
    [op |-> op, status |-> status, ok |-> status = 200, result |-> result,
     queue |-> queue,
     on_platform |-> \E n \in 1..Len(queues) : queues[n].id = queue]

QIssued(op) == {n \in 1..Len(qcalls) : qcalls[n].op = op}

AutoInit ==
    /\ rules \in {<<>>,
                  <<Rule("professionalism", None, ProjectId, <<"judge">>, <<>>, None)>>,
                  <<Rule(AutomationName, None, ProjectId, <<"judge">>, <<>>, None)>>}
    /\ queues \in {<<>>, <<[name |-> "Triage Review Queue", id |-> 1]>>,
                   <<[name |-> QueueName, id |-> 1]>>}
    /\ project_found \in BOOLEAN
    /\ qpc = "ready"
    /\ qpass = 0
    /\ project_id = None
    /\ queue_id = None
    /\ qcalls = <<>>
    /\ qpasses = <<>>

\* The registry at rest, while another component runs.
AutoIdle ==
    /\ queues = <<>>
    /\ project_found = FALSE
    /\ qpc = "idle"
    /\ qpass = 0
    /\ project_id = None
    /\ queue_id = None
    /\ qcalls = <<>>
    /\ qpasses = <<>>

AutoEnded == qpc \in {"returned", "raised"}

\* load_automations_and_queues ends: the pass joins the history.
EndAuto(how, newcalls) ==
    /\ qpc' = how
    /\ qcalls' = newcalls
    /\ qpasses' = Append(qpasses,
          [outcome |-> how,
           queue_creates |-> Cardinality({n \in 1..Len(newcalls) : newcalls[n].op = "create_queue"}),
           automation_creates |-> Cardinality({n \in 1..Len(newcalls) : newcalls[n].op = "create_automation"}),
           answered |-> \A n \in 1..Len(newcalls) : newcalls[n].ok])

\* Lines 97-99, 26-31: load_automations_and_queues is called (again) and
\* looks the project up; the client call may raise.
GetProjectId ==
    /\ qpc = "ready" \/ AutoEnded
    /\ qpass < MaxPasses
    /\ qpass' = qpass + 1
    /\ queue_id' = None
    /\ \/ /\ project_id' = IF project_found THEN ProjectId ELSE None
          /\ qpc' = "get_queue"
          /\ qcalls' = <<QCall("list_projects", 200,
                               IF project_found THEN "present" ELSE "absent", None)>>
          /\ UNCHANGED qpasses
       \/ /\ project_id' = None
          /\ EndAuto("raised", <<QCall("list_projects", Exception, "error", None)>>)
    /\ UNCHANGED <<rules, queues, project_found>>

\* Lines 115-116, 53-62: get_queue_id; a status >= 300 raises.
GetQueueId ==
    /\ qpc = "get_queue"
    /\ \E status \in {200} \cup OtherAnswers \cup {Exception} :
        LET result == QueueListingResult(status, QueueIdOf(QueueName))
            call == QCall("list_queues", status, result, QueueIdOf(QueueName))
        IN  IF result = "error"
            THEN /\ EndAuto("raised", Append(qcalls, call))
                 /\ UNCHANGED queue_id
            ELSE /\ queue_id' = QueueIdOf(QueueName)
                 /\ qcalls' = Append(qcalls, call)
                 /\ qpc' = IF QueueMissing(QueueIdOf(QueueName))
                           THEN "create_queue" ELSE "check_project"
                 /\ UNCHANGED qpasses
    /\ UNCHANGED <<rules, queues, project_found, qpass, project_id>>

\* Lines 116-118, 81-95: create_queue; a status >= 300 raises, and the id of
\* the new queue is taken from the answer.
CreateQueue ==
    /\ qpc = "create_queue"
    /\ \E status \in {200, 500, Exception} :
        LET fresh == Len(queues) + 1 IN
        IF status = 200
        THEN /\ queues' = Append(queues, [name |-> QueueName, id |-> fresh])
             /\ queue_id' = fresh
             /\ qcalls' = Append(qcalls, QCall("create_queue", status, "ok", fresh))
             /\ qpc' = "check_project"
             /\ UNCHANGED qpasses
        ELSE /\ EndAuto("raised", Append(qcalls, QCall("create_queue", status, "error", None)))
             /\ UNCHANGED <<queues, queue_id>>
    /\ UNCHANGED <<rules, project_found, qpass, project_id>>

\* Lines 122-124: without a project the automation is passed over.
CheckProject ==
    /\ qpc = "check_project"
    /\ IF project_id = None
       THEN EndAuto("returned", qcalls)
       ELSE qpc' = "exists" /\ UNCHANGED <<qcalls, qpasses>>
    /\ UNCHANGED <<rules, queues, project_found, qpass, project_id, queue_id>>

\* Lines 126-135, 33-51: automation_exists; a status >= 300 raises, an
\* existing automation ends the iteration.
CheckAutomationExists ==
    /\ qpc = "exists"
    /\ \E status \in {200} \cup OtherAnswers \cup {Exception} :
        LET result == AutomationListingResult(status, automation_exists(AutomationName, project_id))
            call == QCall("list_rules", status, result, None)
        IN  IF result = "error"
            THEN EndAuto("raised", Append(qcalls, call))
            ELSE IF result = "present"
            THEN EndAuto("returned", Append(qcalls, call))
            ELSE /\ qcalls' = Append(qcalls, call)
                 /\ qpc' = "create_automation"
                 /\ UNCHANGED qpasses
    /\ UNCHANGED <<rules, queues, project_found, qpass, project_id, queue_id>>

\* Lines 137-138, 65-79: create_automation, for the queue id of this pass;
\* a status >= 300 raises.
CreateAutomation ==
    /\ qpc = "create_automation"
    /\ \E status \in {200, 500, Exception} :
        IF status = 200
        THEN /\ rules' = Append(rules, AutomationRule(AutomationName, project_id, queue_id))
             /\ EndAuto("returned", Append(qcalls, QCall("create_automation", status, "ok", queue_id)))
        ELSE /\ EndAuto("raised", Append(qcalls, QCall("create_automation", status, "error", queue_id)))
             /\ UNCHANGED rules
    /\ UNCHANGED <<queues, project_found, qpass, project_id, queue_id>>

(***************************************************************************)
(* Authenticated requests: src/setup/config.py, auth_headers, and the way  *)
(* each direct-API operation of the setup modules reaches its request.     *)
(***************************************************************************)
VARIABLES api_key, owner_given, kop, kpc, sent

keyVars == <<api_key, owner_given, kop, kpc, sent>>

\* The operations that call get_owner first (prompts.py 41, 115, 166).
OwnerOps == {"prompt_exists", "api_push_prompt_commit", "api_delete_prompt_repo"}

\* The operations whose request sits in a try that catches every exception
\* and returns (prompts.py 46-72, 168-174).
SwallowingOps == {"prompt_exists", "api_delete_prompt_repo"}

DirectOps ==
    OwnerOps \cup
    {"evaluator_exists", "create_evaluator", "automation_exists", "get_queue_id",
     "create_queue", "create_automation", "api_create_session", "api_create_run",
     "api_end_run", "api_log_feedback", "api_close_session"}

\* config.py 17-23: the headers of a request, or an error when no key is set.
auth_headers(key) == IF key THEN "headers" ELSE "raise"

\* prompts.py 115-131: the push looks the latest commit up before it pushes.
AfterOwner(op) == IF op = "api_push_prompt_commit" THEN "lookup" ELSE "request"

\* An error raised where the request is built or answered: caught or not.
OnError(op) == IF op \in SwallowingOps THEN "returned" ELSE "raised"

KeyInit ==
    /\ api_key \in BOOLEAN
    /\ owner_given \in BOOLEAN
    /\ kop \in DirectOps
    /\ kpc = IF kop \in OwnerOps THEN "get_owner" ELSE "request"
    /\ sent = 0

\* No direct-API operation under study.
KeyIdle ==
    /\ api_key = TRUE
    /\ owner_given = FALSE
    /\ kop = ""
    /\ kpc = "idle"
    /\ sent = 0

\* prompts.py 20-30: get_owner returns the owner it was given, or asks the
\* settings endpoint; it is called outside any try.
GetOwner ==
    /\ kpc = "get_owner"
    /\ IF owner_given
       THEN kpc' = AfterOwner(kop) /\ UNCHANGED sent
       ELSE IF auth_headers(api_key) = "raise"
       THEN kpc' = "raised" /\ UNCHANGED sent
       ELSE \E status \in {200, 500} :
               /\ sent' = sent + 1
               /\ kpc' = IF status >= 300 THEN "raised" ELSE AfterOwner(kop)
    /\ UNCHANGED <<api_key, owner_given, kop>>

\* prompts.py 132-142: the latest-commit lookup of a push, inside a try that
\* swallows every exception.
LookupParent ==
    /\ kpc = "lookup"
    /\ sent' = IF auth_headers(api_key) = "raise" THEN sent ELSE sent + 1
    /\ kpc' = "request"
    /\ UNCHANGED <<api_key, owner_given, kop>>

\* The request of the operation: requests.<verb>(url, headers=auth_headers(),
\* ...).  The headers are built before the request is sent.  With a key the
\* request is answered 200 or 500 (the 404 and 409 conventions are followed
\* in the components above); prompt_exists answers a 500 with its fallback
\* listing.
SendRequest ==
    /\ kpc = "request"
    /\ IF auth_headers(api_key) = "raise"
       THEN kpc' = OnError(kop) /\ UNCHANGED sent
       ELSE \E status \in {200, 500} :
               /\ sent' = IF kop = "prompt_exists" /\ status = 500 THEN sent + 2 ELSE sent + 1
               /\ kpc' = IF status >= 300 THEN OnError(kop) ELSE "returned"
    /\ UNCHANGED <<api_key, owner_given, kop>>

(***************************************************************************)
(* The existence scans on their own: evaluator_exists (evaluators.py       *)
(* 96-117) and automation_exists (annotations.py 33-51) applied once to a  *)
(* platform holding any rules.                                             *)
(***************************************************************************)
VARIABLES squery, sres

scanVars == <<squery, sres>>

NoQuery == [fn |-> "", name |-> "", target_type |-> "", target_id |-> None]

\* Rules a platform may list under or near the name "correctness": an
\* evaluator of dataset 1, an empty shell, a rule whose name only contains
\* the name, a code evaluator of dataset 2, a code evaluator of project 3 and
\* an automation of project 3 (which has a queue and no evaluator body).
ListedRules ==
    { Rule("correctness", 1, None, <<"judge">>, <<>>, None),
      Rule("correctness", 1, None, <<>>, <<>>, None),
      Rule("correctness-strict", 1, None, <<"judge">>, <<>>, None),
      Rule("correctness", 2, None, <<>>, <<"code">>, None),
      Rule("correctness", None, 3, <<>>, <<"code">>, None),
      Rule("correctness", None, 3, <<>>, <<>>, 7) }

ScanInit ==
    /\ rules \in SeqsUpTo(ListedRules, MaxRules)
    /\ squery = NoQuery
    /\ sres = "none"

ScanIdle ==
    /\ squery = NoQuery
    /\ sres = "none"

\* evaluators.py 96-117: evaluator_exists(name, target_type, target_id),
\* the listing answered with 200.
ScanEvaluators ==
    /\ squery = NoQuery
    /\ \E tt \in {"dataset", "project"}, id \in {1, 3} :
        /\ squery' = [fn |-> "evaluator_exists", name |-> "correctness",
                      target_type |-> tt, target_id |-> id]
        /\ sres' = IF evaluator_exists("correctness", tt, id) THEN "true" ELSE "false"
    /\ UNCHANGED rules

\* annotations.py 33-51: automation_exists(name, project_id), the listing
\* answered with 200.
ScanAutomations ==
    /\ squery = NoQuery
    /\ \E id \in {1, 3} :
        /\ squery' = [fn |-> "automation_exists", name |-> "correctness",
                      target_type |-> "project", target_id |-> id]
        /\ sres' = IF automation_exists("correctness", id) THEN "true" ELSE "false"
    /\ UNCHANGED rules

(***************************************************************************)
(* The tool trajectory of a run: src/setup/experiments.py,                 *)
(* extract_tool_calls.                                                     *)
(***************************************************************************)
VARIABLES messages, mi, tool_call_names, xpc

extractVars == <<messages, mi, tool_call_names, xpc>>

\* Line 18, 21: str.lower on the tool names the agent's messages carry.
lower(name) ==
    CASE name = "Write_Email" -> "write_email"
      [] name = "DONE" -> "done"
      [] OTHER -> name

\* A message: a dict, an object with a tool_calls attribute, or an object
\* without one; tool_calls is empty when the key or attribute is missing,
\* None or an empty list.
Message(kind, tool_calls) == [kind |-> kind, tool_calls |-> tool_calls]

MessageChoices ==
    { Message("dict", <<"Write_Email", "write_email">>),
      Message("dict", <<>>),
      Message("object", <<"DONE">>),
      Message("object", <<"done", "write_email">>),
      Message("other", <<>>) }

\* Lines 17, 20: the message carries tool calls.
HasCallsDictOnly(message) == message.kind = "dict" /\ message.tool_calls # <<>>
HasCalls(message) ==
    \/ message.kind = "dict" /\ message.tool_calls # <<>>
    \/ message.kind = "object" /\ message.tool_calls # <<>>

\* Lines 18, 21: the lower-cased names of the calls of one message.
LoweredNames(message) ==
    [c \in 1..Len(message.tool_calls) |-> lower(message.tool_calls[c])]

ExtractInit ==
    /\ messages \in SeqsUpTo(MessageChoices, MaxLen)
    /\ mi = 1
    /\ tool_call_names = <<>>
    /\ xpc = "loop"

ExtractIdle ==
    /\ messages = <<>>
    /\ mi = 1
    /\ tool_call_names = <<>>
    /\ xpc = "idle"

\* Lines 15-21: one iteration of the loop over the messages.
ExtendNames ==
    /\ xpc = "loop"
    /\ mi <= Len(messages)
    /\ tool_call_names' = IF HasCalls(messages[mi])
                          THEN tool_call_names \o LoweredNames(messages[mi])
                          ELSE tool_call_names
    /\ mi' = mi + 1
    /\ UNCHANGED <<messages, xpc>>

\* Line 23: the loop is over; the names are returned.
ReturnNames ==
    /\ xpc = "loop"
    /\ mi > Len(messages)
    /\ xpc' = "returned"
    /\ UNCHANGED <<messages, mi, tool_call_names>>

(***************************************************************************)
(* Experiment Runner, batched strategy: src/setup/experiments.py,          *)
(* run_trajectory_experiment(use_api=False): client.evaluate runs          *)
(* run_email_assistant and evaluate_extra_steps for the examples on up to  *)
(* max_concurrency threads.  A thread has its own position and example;    *)
(* the local variables of the call it runs live in the frame of that call. *)
(* The agent's answer is taken as the trajectory extract_tool_calls makes  *)
(* of it.                                                                  *)
(***************************************************************************)
VARIABLES bexamples, taken, worker, frame, runs

batchVars == <<bexamples, taken, worker, frame, runs>>

\* Line 137: max_concurrency=4.
max_concurrency == 4

Workers == 1..(IF max_concurrency < MaxWorkers THEN max_concurrency ELSE MaxWorkers)

\* Lines 26-55: each call of run_email_assistant and evaluate_extra_steps
\* has a frame of its own for thread_id, result, i, j and unmatched_steps;
\* the functions assign no module-level name.
FrameShared(w) == 1
Frame(w) == w

\* email_assistant.invoke (agent/agent.py): what the agent may answer for
\* an example.  An invocation keeps no state that another one reads: the
\* answer does not depend on the invocations around it.
AgentAnswers == OutputChoices

NoFrame == [outputs |-> <<>>, i |-> 0, j |-> 0, unmatched_steps |-> 0]
Resting == [pc |-> "idle", ex |-> 0]
NoRun == [answer |-> <<>>, trajectory |-> <<>>, score |-> NoScore]

BatchInit ==
    /\ bexamples \in SeqsUpTo(ReferenceChoices, MaxExamples)
    /\ taken = 0
    /\ worker = [w \in Workers |-> Resting]
    /\ frame = [w \in Workers |-> NoFrame]
    /\ runs = [e \in 1..Len(bexamples) |-> NoRun]

BatchIdle ==
    /\ bexamples = <<>>
    /\ taken = 0
    /\ worker = [w \in Workers |-> Resting]
    /\ frame = [w \in Workers |-> NoFrame]
    /\ runs = <<>>

\* Lines 131-138: a free thread of client.evaluate takes the next example.
TakeExample(w) ==
    /\ worker[w].pc = "idle"
    /\ taken < Len(bexamples)
    /\ taken' = taken + 1
    /\ worker' = [worker EXCEPT ![w] = [pc |-> "invoke", ex |-> taken + 1]]
    /\ UNCHANGED <<bexamples, frame, runs>>

\* Lines 26-33, 39-40: run_email_assistant under a fresh thread_id; the
\* agent answers, and evaluate_extra_steps is entered with that trajectory
\* and i = j = 0, unmatched_steps = 0.
RunAssistant(w) ==
    /\ worker[w].pc = "invoke"
    /\ \E out \in AgentAnswers :
        /\ runs' = [runs EXCEPT ![worker[w].ex].answer = out]
        /\ frame' = [frame EXCEPT ![Frame(w)] =
                        [outputs |-> out, i |-> 0, j |-> 0, unmatched_steps |-> 0]]
    /\ worker' = [worker EXCEPT ![w].pc = "loop"]
    /\ UNCHANGED <<bexamples, taken>>

\* Lines 42-47: one iteration of the scoring loop in the thread's frame.
ScoreStep(w) ==
    LET f == frame[Frame(w)]
        ref == bexamples[worker[w].ex]
    IN  /\ worker[w].pc = "loop"
        /\ LoopCond(ref, f.outputs, f.i, f.j)
        /\ frame' = [frame EXCEPT ![Frame(w)] =
                        IF StepMatches(ref[f.i + 1], f.outputs[f.j + 1])
                        THEN [f EXCEPT !.i = f.i + 1, !.j = f.j + 1]
                        ELSE [f EXCEPT !.unmatched_steps = Charge(f.unmatched_steps),
                                       !.j = f.j + 1]]
        /\ UNCHANGED <<bexamples, taken, worker, runs>>

\* Lines 49-55: the loop ends in the thread's frame; the trajectory and the
\* score are handed back for the example, and the thread is free again.
ScoreReturn(w) ==
    LET f == frame[Frame(w)]
        ref == bexamples[worker[w].ex]
    IN  /\ worker[w].pc = "loop"
        /\ ~LoopCond(ref, f.outputs, f.i, f.j)
        /\ runs' = [runs EXCEPT ![worker[w].ex].trajectory = f.outputs,
                                ![worker[w].ex].score =
                                    f.unmatched_steps + Remaining(f.outputs, f.j)]
        /\ worker' = [worker EXCEPT ![w] = Resting]
        /\ UNCHANGED <<bexamples, taken, frame>>

(***************************************************************************)
(* The orchestrator: src/main.py, main, run with --api-only.  Each stage   *)
(* is one call; a stage that raises ends main, for main catches nothing.   *)
(***************************************************************************)
VARIABLES stage, done

mainVars == <<stage, done>>

\* Lines 27-43: the stages of main, in the order of its statements.
StageOrderExperimentsFirst ==
    <<"prompts", "datasets", "experiments", "evaluators", "automations", "traces">>
StageOrder ==
    <<"prompts", "datasets", "evaluators", "experiments", "automations", "traces">>

Stages == {StageOrder[n] : n \in 1..Len(StageOrder)}

StageIndex(s) == CHOOSE n \in 1..Len(StageOrder) : StageOrder[n] = s

\* The statement after the call of stage s.
NextStage(s) ==
    IF StageIndex(s) < Len(StageOrder) THEN StageOrder[StageIndex(s) + 1] ELSE "done"

\* Lines 29, 43: load_datasets and create_traces, taken as calls that return
\* or raise.
OpaqueStages == {"datasets", "traces"}

\* The calls of load_prompt that load_all_prompts has made so far.
LoadsDone == Cardinality({n \in 1..Len(history) : history[n].result # "deleted"})

\* The call of stage s has returned.
StageReturned(s) ==
    \/ s = "prompts" /\ ppc \in {"returned_ref", "returned_none"}
    \/ s \in OpaqueStages
    \/ s = "evaluators" /\ vpc = "returned"
    \/ s = "experiments" /\ epc = "returned"
    \/ s = "automations" /\ qpc = "returned"

\* The call of stage s has raised.
StageRaised(s) ==
    \/ s = "prompts" /\ ppc = "raised"
    \/ s \in OpaqueStages
    \/ s = "evaluators" /\ vpc = "raised"
    \/ s = "experiments" /\ epc = "raised"
    \/ s = "automations" /\ qpc = "raised"

\* The platform and the environment, which no return of a stage changes.
platformVars ==
    <<repos, rules, queues, targets_resolved, prompts_present, use_api,
      dataset_found, examples, project_found>>

\* The locals of every stage's function as they are when stage s is about
\* to be called: the callee at its entry, the others not running.
Enter(s) ==
    /\ ppc' = IF s = "prompts" THEN "ready" ELSE "idle"
    /\ repo' = "guardrail-example"
    /\ manifest' = "m1"
    /\ body_parent' = None
    /\ pcalls' = <<>>
    /\ history' = <<>>
    /\ vpc' = IF s = "evaluators" THEN "ready" ELSE "idle"
    /\ pass' = 0
    /\ idx' = 1
    /\ target' = None
    /\ payloads' = [n \in 1..NumEvaluators |-> NoPayload]
    /\ creates' = 0
    /\ answered' = TRUE
    /\ passes' = <<>>
    /\ vcalls' = <<>>
    /\ vlast' = NoCall
    /\ body' = NoBody
    /\ epc' = IF s = "experiments" THEN "get_dataset" ELSE "idle"
    /\ ex' = 0
    /\ session_id' = None
    /\ run_id' = None
    /\ outputs' = <<>>
    /\ eval_res' = NoScore
    /\ run_summaries' = <<>>
    /\ calls' = <<>>
    /\ qpc' = IF s = "automations" THEN "ready" ELSE "idle"
    /\ qpass' = 0
    /\ project_id' = None
    /\ queue_id' = None
    /\ qcalls' = <<>>
    /\ qpasses' = <<>>

\* The orchestrator not running, while a component is studied on its own.
MainIdle ==
    /\ stage = "idle"
    /\ done = <<>>

\* What main --api-only may find on the platform: the guardrail prompt of an
\* earlier run or no prompt, the starter kit's datasets, project and
\* evaluator prompts or none of them, rules and a queue of an earlier run.
MainInit ==
    /\ BatchIdle
    /\ ExtractIdle
    /\ ScanIdle
    /\ KeyIdle
    /\ stage = "prompts"
    /\ done = <<>>
    /\ repos \in {[r \in RepoNames |-> NoRepo],
                  [r \in RepoNames |-> IF r = DeletedRepo THEN OneCommitRepo ELSE NoRepo]}
    /\ ppc = "ready"
    /\ repo = "guardrail-example"
    /\ manifest = "m1"
    /\ body_parent = None
    /\ pcalls = <<>>
    /\ history = <<>>
    /\ rules \in InitialRules
    /\ targets_resolved \in {TargetNames, {}}
    /\ prompts_present \in {PromptRefs, {}}
    /\ use_api = TRUE
    /\ vpc = "idle"
    /\ pass = 0
    /\ idx = 1
    /\ target = None
    /\ payloads = [n \in 1..NumEvaluators |-> NoPayload]
    /\ creates = 0
    /\ answered = TRUE
    /\ passes = <<>>
    /\ vcalls = <<>>
    /\ vlast = NoCall
    /\ body = NoBody
    /\ dataset_found = ("Email Agent: Trajectory" \in targets_resolved)
    /\ examples = << <<"write_email">> >>
    /\ epc = "idle"
    /\ ex = 0
    /\ session_id = None
    /\ run_id = None
    /\ outputs = <<>>
    /\ eval_res = NoScore
    /\ run_summaries = <<>>
    /\ calls = <<>>
    /\ queues \in {<<>>, <<[name |-> QueueName, id |-> 1]>>}
    /\ project_found = ("LANGSMITH_PROJECT" \in targets_resolved)
    /\ qpc = "idle"
    /\ qpass = 0
    /\ project_id = None
    /\ queue_id = None
    /\ qcalls = <<>>
    /\ qpasses = <<>>
    /\ AlignIdle

\* Lines 27-43: the call of the current stage returns and main goes on to
\* its next statement.
StageReturns ==
    /\ stage \in Stages
    /\ StageReturned(stage)
    /\ stage' = NextStage(stage)
    /\ done' = Append(done, stage)
    /\ Enter(NextStage(stage))
    /\ UNCHANGED <<platformVars, alignVars>>

\* Lines 27-43: the call of the current stage raises, and so does main.
StageRaises ==
    /\ stage \in Stages
    /\ StageRaised(stage)
    /\ stage' = "raised"
    /\ UNCHANGED <<done, alignVars, expVars, pushVars, evalVars, autoVars>>

(***************************************************************************)
(* The specifications: one per component, the others at rest, and one for  *)
(* the whole of main.                                                      *)
(***************************************************************************)
vars == <<alignVars, expVars, pushVars, evalVars, autoVars, mainVars, keyVars, scanVars, extractVars, batchVars>>

notAlign == <<expVars, pushVars, evalVars, autoVars, mainVars, keyVars, scanVars, extractVars, batchVars>>
notExp == <<alignVars, pushVars, evalVars, autoVars, mainVars, keyVars, scanVars, extractVars, batchVars>>
notPush == <<alignVars, expVars, evalVars, autoVars, mainVars, keyVars, scanVars, extractVars, batchVars>>
notEval == <<alignVars, expVars, pushVars, autoVars, mainVars, keyVars, scanVars, extractVars, batchVars>>
notAuto == <<alignVars, expVars, pushVars, evalOwn, mainVars, keyVars, scanVars, extractVars, batchVars>>

InitAlign == AlignInit /\ ExpIdle /\ PushIdle /\ EvalIdle /\ AutoIdle /\ MainIdle /\ KeyIdle /\ ScanIdle /\ ExtractIdle /\ BatchIdle

NextAlign ==
    \/ LoopMatch /\ UNCHANGED notAlign
    \/ LoopMismatch /\ UNCHANGED notAlign
    \/ LoopExit /\ UNCHANGED notAlign

SpecAlign == InitAlign /\ [][NextAlign]_vars

InitExp == ExpInit /\ AlignIdle /\ PushIdle /\ EvalIdle /\ AutoIdle /\ MainIdle /\ KeyIdle /\ ScanIdle /\ ExtractIdle /\ BatchIdle

NextExp ==
    \/ GetDatasetId /\ UNCHANGED notExp
    \/ ListExamples /\ UNCHANGED notExp
    \/ CreateSession /\ UNCHANGED notExp
    \/ CreateRun /\ UNCHANGED notExp
    \/ InvokeAgent /\ UNCHANGED notExp
    \/ EndRun /\ UNCHANGED notExp
    \/ Score /\ UNCHANGED notExp
    \/ LogFeedback /\ UNCHANGED notExp
    \/ CloseSession /\ UNCHANGED notExp

SpecExp == InitExp /\ [][NextExp]_vars

InitPush == PushInit /\ AlignIdle /\ ExpIdle /\ EvalIdle /\ AutoIdle /\ MainIdle /\ KeyIdle /\ ScanIdle /\ ExtractIdle /\ BatchIdle

NextPush ==
    \/ DeleteExistingPrompt /\ UNCHANGED notPush
    \/ StartPush /\ UNCHANGED notPush
    \/ Prepare /\ UNCHANGED notPush
    \/ LookupLatest /\ UNCHANGED notPush
    \/ PushCommit /\ UNCHANGED notPush
    \/ CreateRepo /\ UNCHANGED notPush
    \/ RetryPush /\ UNCHANGED notPush

SpecPush == InitPush /\ [][NextPush]_vars

\* load_prompt under either transport: each call goes through the direct
\* requests or through the client.
NextLoadPrompt ==
    \/ DeleteExistingPrompt /\ UNCHANGED notPush
    \/ StartPush /\ UNCHANGED notPush
    \/ Prepare /\ UNCHANGED notPush
    \/ LookupLatest /\ UNCHANGED notPush
    \/ PushCommit /\ UNCHANGED notPush
    \/ CreateRepo /\ UNCHANGED notPush
    \/ RetryPush /\ UNCHANGED notPush
    \/ ClientPushPrompt /\ UNCHANGED notPush

SpecLoadPrompt == InitPush /\ [][NextLoadPrompt]_vars

InitEval == EvalInit /\ AlignIdle /\ ExpIdle /\ PushIdle /\ AutoIdle /\ MainIdle /\ KeyIdle /\ ScanIdle /\ ExtractIdle /\ BatchIdle

NextEval ==
    \/ StartPass /\ UNCHANGED notEval
    \/ ResolveTarget /\ UNCHANGED notEval
    \/ CheckEvaluatorExists /\ UNCHANGED notEval
    \/ VerifyPrompt /\ UNCHANGED notEval
    \/ CreateEvaluator /\ UNCHANGED notEval

SpecEval == InitEval /\ [][NextEval]_vars

InitAuto == AutoInit /\ AlignIdle /\ ExpIdle /\ PushIdle /\ EvalAtRest /\ MainIdle /\ KeyIdle /\ ScanIdle /\ ExtractIdle /\ BatchIdle

NextAuto ==
    \/ GetProjectId /\ UNCHANGED notAuto
    \/ GetQueueId /\ UNCHANGED notAuto
    \/ CreateQueue /\ UNCHANGED notAuto
    \/ CheckProject /\ UNCHANGED notAuto
    \/ CheckAutomationExists /\ UNCHANGED notAuto
    \/ CreateAutomation /\ UNCHANGED notAuto

SpecAuto == InitAuto /\ [][NextAuto]_vars

\* load_evaluators called once, whatever the platform holds.
NextEvalOnce ==
    \/ vpc = "ready" /\ StartPass /\ UNCHANGED notEval
    \/ ResolveTarget /\ UNCHANGED notEval
    \/ CheckEvaluatorExists /\ UNCHANGED notEval
    \/ VerifyPrompt /\ UNCHANGED notEval
    \/ CreateEvaluator /\ UNCHANGED notEval

SpecEvalOnce == InitEval /\ [][NextEvalOnce]_vars

\* main: the steps of the stage being run, and the passage from one stage
\* to the next.  Each registry function is called once, and load_all_prompts
\* stops at the first load_prompt that raises (MaxLoads calls of load_prompt
\* are followed).
NextMain ==
    \/ stage = "prompts" /\ ppc # "raised" /\ DeleteExistingPrompt /\ UNCHANGED notPush
    \/ stage = "prompts" /\ ppc # "raised" /\ LoadsDone < MaxLoads /\ StartPush /\ UNCHANGED notPush
    \/ stage = "prompts" /\ Prepare /\ UNCHANGED notPush
    \/ stage = "prompts" /\ LookupLatest /\ UNCHANGED notPush
    \/ stage = "prompts" /\ PushCommit /\ UNCHANGED notPush
    \/ stage = "prompts" /\ CreateRepo /\ UNCHANGED notPush
    \/ stage = "prompts" /\ RetryPush /\ UNCHANGED notPush
    \/ stage = "evaluators" /\ vpc = "ready" /\ StartPass /\ UNCHANGED notEval
    \/ stage = "evaluators" /\ ResolveTarget /\ UNCHANGED notEval
    \/ stage = "evaluators" /\ CheckEvaluatorExists /\ UNCHANGED notEval
    \/ stage = "evaluators" /\ VerifyPrompt /\ UNCHANGED notEval
    \/ stage = "evaluators" /\ CreateEvaluator /\ UNCHANGED notEval
    \/ stage = "experiments" /\ GetDatasetId /\ UNCHANGED notExp
    \/ stage = "experiments" /\ ListExamples /\ UNCHANGED notExp
    \/ stage = "experiments" /\ CreateSession /\ UNCHANGED notExp
    \/ stage = "experiments" /\ CreateRun /\ UNCHANGED notExp
    \/ stage = "experiments" /\ InvokeAgent /\ UNCHANGED notExp
    \/ stage = "experiments" /\ EndRun /\ UNCHANGED notExp
    \/ stage = "experiments" /\ Score /\ UNCHANGED notExp
    \/ stage = "experiments" /\ LogFeedback /\ UNCHANGED notExp
    \/ stage = "experiments" /\ CloseSession /\ UNCHANGED notExp
    \/ stage = "automations" /\ qpc = "ready" /\ GetProjectId /\ UNCHANGED notAuto
    \/ stage = "automations" /\ GetQueueId /\ UNCHANGED notAuto
    \/ stage = "automations" /\ CreateQueue /\ UNCHANGED notAuto
    \/ stage = "automations" /\ CheckProject /\ UNCHANGED notAuto
    \/ stage = "automations" /\ CheckAutomationExists /\ UNCHANGED notAuto
    \/ stage = "automations" /\ CreateAutomation /\ UNCHANGED notAuto
    \/ StageReturns /\ UNCHANGED <<keyVars, scanVars, extractVars, batchVars>>
    \/ StageRaises /\ UNCHANGED <<keyVars, scanVars, extractVars, batchVars>>

SpecMain == MainInit /\ [][NextMain]_vars

notKey == <<alignVars, expVars, pushVars, evalVars, autoVars, mainVars, scanVars, extractVars, batchVars>>

InitAuth == KeyInit /\ AlignIdle /\ ExpIdle /\ PushIdle /\ EvalIdle /\ AutoIdle /\ MainIdle /\ ScanIdle /\ ExtractIdle /\ BatchIdle

NextAuth ==
    \/ GetOwner /\ UNCHANGED notKey
    \/ LookupParent /\ UNCHANGED notKey
    \/ SendRequest /\ UNCHANGED notKey

SpecAuth == InitAuth /\ [][NextAuth]_vars

notScan == <<alignVars, expVars, pushVars, evalOwn, autoVars, mainVars, keyVars, extractVars, batchVars>>

InitScan == ScanInit /\ AlignIdle /\ ExpIdle /\ PushIdle /\ EvalAtRest /\ AutoIdle /\ MainIdle /\ KeyIdle /\ ExtractIdle /\ BatchIdle

NextScan ==
    \/ ScanEvaluators /\ UNCHANGED notScan
    \/ ScanAutomations /\ UNCHANGED notScan

SpecScan == InitScan /\ [][NextScan]_vars

notExtract == <<alignVars, expVars, pushVars, evalVars, autoVars, mainVars, keyVars, scanVars, batchVars>>

InitExtract == ExtractInit /\ AlignIdle /\ ExpIdle /\ PushIdle /\ EvalIdle /\ AutoIdle /\ MainIdle /\ KeyIdle /\ ScanIdle /\ BatchIdle

NextExtract ==
    \/ ExtendNames /\ UNCHANGED notExtract
    \/ ReturnNames /\ UNCHANGED notExtract

SpecExtract == InitExtract /\ [][NextExtract]_vars

notBatch == <<alignVars, expVars, pushVars, evalVars, autoVars, mainVars, keyVars, scanVars, extractVars>>

InitBatch == BatchInit /\ AlignIdle /\ ExpIdle /\ PushIdle /\ EvalIdle /\ AutoIdle /\ MainIdle /\ KeyIdle /\ ScanIdle /\ ExtractIdle

NextBatch ==
    \/ \E w \in Workers : TakeExample(w) /\ UNCHANGED notBatch
    \/ \E w \in Workers : RunAssistant(w) /\ UNCHANGED notBatch
    \/ \E w \in Workers : ScoreStep(w) /\ UNCHANGED notBatch
    \/ \E w \in Workers : ScoreReturn(w) /\ UNCHANGED notBatch

SpecBatch == InitBatch /\ [][NextBatch]_vars

(***************************************************************************)
(* Properties of the prompt commit push (under SpecPush).                  *)
(***************************************************************************)
FirstPushNotFound == \E n \in PIssued("push") : pcalls[n].status = 404

CreateRepoAnswered(S) == \E n \in PIssued("create_repo") : pcalls[n].status \in S

\* C5 as claimed: when the first push answers 404, api_push_prompt_commit
\* issues exactly one repository-creation call and exactly one retried push
\* call, whatever the statuses are.
C5_OneCreationOneRetry ==
    (PushEnded /\ FirstPushNotFound) =>
        /\ Cardinality(PIssued("create_repo")) = 1
        /\ Cardinality(PIssued("retry")) = 1

\* C5 as amended: when the first push answers 404, exactly one
\* repository-creation call is issued and at most one retried push: exactly
\* one when the creation answers 200, 201 or 409, whatever the retried push
\* answers, and none when the creation answers anything else (the function
\* raises).  Without a 404 neither call is issued.
C5_OneCreationAtMostOneRetry ==
    /\ Cardinality(PIssued("push")) <= 1
    /\ Cardinality(PIssued("create_repo")) <= 1
    /\ Cardinality(PIssued("retry")) <= 1
    /\ (PushEnded /\ FirstPushNotFound) =>
        /\ Cardinality(PIssued("create_repo")) = 1
        /\ CreateRepoAnswered({200, 201, 409}) <=> Cardinality(PIssued("retry")) = 1
        /\ ~CreateRepoAnswered({200, 201, 409}) => ppc = "raised"
    /\ ~FirstPushNotFound => PIssued("create_repo") = {} /\ PIssued("retry") = {}

C5_Witness ==
    /\ ppc = "raised"
    /\ FirstPushNotFound
    /\ CreateRepoAnswered({409})
    /\ \E n \in PIssued("retry") : pcalls[n].status = 404

\* C6: two calls of api_push_prompt_commit in succession with the same
\* manifest for the same repository, the platform answering every request
\* from its state (409 when the pushed content equals the latest commit):
\* neither call raises, the second returns None, and the first returns a
\* reference when its manifest was not the repository's latest commit
\* already (and None when it was).
C6_SecondPushIsNoOp ==
    \A n \in 1..(Len(history) - 1) :
        LET first == history[n]
            second == history[n + 1]
        IN  (/\ first.repo = second.repo
             /\ first.manifest = second.manifest
             /\ first.faithful
             /\ second.faithful) =>
                /\ first.result = (IF first.fresh THEN "ref" ELSE "none")
                /\ second.result = "none"

C6_Witness ==
    /\ Len(history) = 2
    /\ history[1].repo = history[2].repo
    /\ history[1].manifest = history[2].manifest
    /\ history[1].faithful /\ history[2].faithful
    /\ history[1].result = "ref"
    /\ history[2].result = "none"
    /\ repos[history[1].repo].commits # <<>>

PushRequests == PIssued("push") \cup PIssued("retry")

LookupAnswered(S) == \E n \in PIssued("latest") : pcalls[n].status \in S

\* C7 as claimed: every commit push issued to a repository that already
\* holds a commit carries parent_commit equal to the repository's latest
\* commit hash, whatever the latest-commit lookup answered.
C7_EveryPushCarriesLatest ==
    \A n \in PushRequests :
        pcalls[n].latest # None => pcalls[n].parent = pcalls[n].latest

\* C7 as amended: a commit push issued after a latest-commit lookup that
\* answered 200 with a commit hash carries that hash as parent_commit (the
\* repository's latest commit); after a lookup that failed (another status or
\* an exception) the push carries no parent_commit.  The stored commits never
\* link to anything but their predecessor, and they form one chain as long as
\* every request was answered from the platform's state.
C7_PushCarriesLookedUpParent ==
    /\ \A n \in PushRequests :
        /\ LookupAnswered({200}) => (pcalls[n].parent = pcalls[n].latest /\ pcalls[n].parent # None)
        /\ ~LookupAnswered({200}) => pcalls[n].parent = None
    /\ \A r \in RepoNames : \A k \in 1..Len(repos[r].commits) :
        /\ repos[r].commits[k].parent \in {None, k - 1}
        /\ (\A n \in 1..Len(history) : history[n].faithful) /\ (PushEnded \/ ppc = "ready")
            => repos[r].commits[k].parent = k - 1

C7_Witness ==
    /\ ppc = "returned_ref"
    /\ LookupAnswered({200})
    /\ Len(repos[repo].commits) = 3
    /\ repos[repo].commits[3].parent = 2
    /\ repos[repo].commits[2].parent = 1

(***************************************************************************)
(* Properties of the registries (under SpecEval and SpecAuto).             *)
(***************************************************************************)
\* C1: load_evaluators run twice in succession, every request answered by
\* the platform from its state (the rule listing holds every rule created so
\* far): the second pass issues no create-evaluator call, whichever datasets,
\* project and prompts resolve.
C1_SecondPassCreatesNothing ==
    \A n \in 1..(Len(passes) - 1) :
        (passes[n].answered /\ passes[n + 1].answered) =>
            /\ passes[n].outcome = "returned"
            /\ passes[n + 1].outcome = "returned"
            /\ passes[n + 1].creates = 0

C1_Witness ==
    /\ Len(passes) = 2
    /\ passes[1].answered /\ passes[2].answered
    /\ passes[1].creates = 3
    /\ passes[2].creates = 0
    /\ \E n \in 1..Len(rules) : rules[n].code_evaluators # <<>>
    /\ \E n \in 1..Len(rules) : rules[n].session_id # None

\* C2: load_automations_and_queues run twice in succession, every request
\* answered by the platform from its state (the queue and rule listings hold
\* everything created so far, an automation rule as create_automation asks
\* for it): the second pass issues no create-queue call and no
\* create-automation call.
C2_SecondPassCreatesNothing ==
    \A n \in 1..(Len(qpasses) - 1) :
        (qpasses[n].answered /\ qpasses[n + 1].answered) =>
            /\ qpasses[n + 1].queue_creates = 0
            /\ qpasses[n + 1].automation_creates = 0

(***************************************************************************)
(* Properties of the Trajectory Aligner (under SpecAlign).                 *)
(***************************************************************************)
IsPrefix(s, t) == Len(s) <= Len(t) /\ \A n \in 1..Len(s) : s[n] = t[n]

\* C8: when observed is a prefix of reference (observed = reference and
\* observed empty included), evaluate_extra_steps returns score 0: nothing is
\* charged at any point of the loop, and reference steps left unconsumed are
\* not charged on return.
C8_PrefixScoresZero ==
    IsPrefix(observed, reference) =>
        /\ unmatched_steps = 0
        /\ apc = "returned" => (j = Len(observed) /\ i = Len(observed))

C8_Witness ==
    /\ apc = "returned"
    /\ IsPrefix(observed, reference)
    /\ Len(observed) = 2
    /\ Len(reference) = 3
    /\ unmatched_steps = 0

\* C9: when reference is non-empty and no observed action equals
\* reference[0], the reference pointer never advances and the returned score
\* is len(observed).
C9_DisjointScoresAll ==
    (reference # <<>> /\ \A n \in 1..Len(observed) : observed[n] # reference[1]) =>
        /\ i = 0
        /\ apc = "loop" => unmatched_steps = j
        /\ apc = "returned" => unmatched_steps = Len(observed)

C9_Witness ==
    /\ apc = "returned"
    /\ Len(observed) = 2
    /\ Len(reference) = 3
    /\ \A n \in 1..Len(observed) : observed[n] # reference[1]
    /\ unmatched_steps = 2
    /\ i = 0

\* C10: when reference is a prefix of observed, evaluate_extra_steps returns
\* len(observed) - len(reference): every observed step after the reference is
\* exhausted is charged, repeats of an already matched action included.
C10_ReferencePrefixChargesRest ==
    (apc = "returned" /\ IsPrefix(reference, observed)) =>
        /\ unmatched_steps = Len(observed) - Len(reference)
        /\ i = Len(reference)

C10_Witness ==
    /\ apc = "returned"
    /\ reference = <<"write_email">>
    /\ observed = <<"write_email", "write_email">>
    /\ unmatched_steps = 1

(***************************************************************************)
(* Properties of the Experiment Runner (under SpecExp).                    *)
(***************************************************************************)
ExpEnded == epc \in {"returned", "raised"}

FailedCalls(ops) == {n \in 1..Len(calls) : calls[n].op \in ops /\ ~calls[n].ok}

NonFeedbackOps ==
    {"get_dataset", "list_examples", "session_create", "run_create", "invoke",
     "run_end", "session_close"}

\* C3: in the manual strategy, for a dataset with N examples and any subset
\* of the feedback-log calls failing while every other call succeeds,
\* run_trajectory_experiment returns normally having issued exactly N
\* run-create calls, N run-end calls and N feedback-log attempts.
C3_FeedbackFailuresContained ==
    (ExpEnded /\ dataset_found /\ FailedCalls(NonFeedbackOps) = {}) =>
        /\ epc = "returned"
        /\ NumIssued("run_create") = Len(examples)
        /\ NumIssued("run_end") = Len(examples)
        /\ NumIssued("feedback") = Len(examples)
        /\ Len(run_summaries) = Len(examples)

C3_Witness ==
    /\ epc = "returned"
    /\ Len(examples) = 2
    /\ Cardinality(FailedCalls({"feedback"})) = 1
    /\ NumIssued("feedback") = 2
    /\ calls[Len(calls) - 1].op = "feedback"
    /\ ~calls[Len(calls) - 1].ok

\* C4: in the manual strategy, once the session has been created, the
\* session-close call has been issued exactly once by the time
\* run_trajectory_experiment returns or raises, whichever per-example step
\* (run create, agent invocation, run end, feedback log) fails.
C4_SessionClosedExactlyOnce ==
    (ExpEnded /\ session_id # None) => NumIssued("session_close") = 1

(***************************************************************************)
(* Properties of the registries within one run of main (under SpecMain),   *)
(* and of each registry on its own.                                        *)
(***************************************************************************)
\* The calls of the current pass of load_evaluators that ended in an error.
VFailed == {n \in 1..Len(vcalls) : vcalls[n].result = "error"}

\* The calls of the current pass of load_automations_and_queues that ended
\* in an error.
QFailed == {n \in 1..Len(qcalls) : qcalls[n].result = "error"}

\* C11: in load_evaluators and in load_automations_and_queues a failure of
\* an existence check or of a create call for one item is contained: when
\* nothing else fails, the function does not raise and every item of its
\* list is attempted.
C11_ItemFailuresContained ==
    /\ (EvalEnded /\ \A n \in VFailed : vcalls[n].op \in {"exists", "create"}) =>
        /\ vpc = "returned"
        /\ \A k \in 1..NumEvaluators : VIssued("resolve", k) # {}
    /\ (AutoEnded /\ \A n \in QFailed :
            qcalls[n].op \in {"list_queues", "list_rules", "create_queue", "create_automation"}) =>
        qpc = "returned"

\* C12 as claimed: no registry updates or deletes a resource that exists:
\* over every step, every rule, queue and prompt repository present before
\* it is present after it, with everything it held (a push may add a commit
\* to a repository, nothing more).
C12_ExistingResourcesKept ==
    [][/\ IsPrefix(rules, rules')
       /\ IsPrefix(queues, queues')
       /\ \A r \in RepoNames :
            repos[r].exists =>
                /\ repos'[r].exists
                /\ IsPrefix(repos[r].commits, repos'[r].commits)]_vars

\* C12 as amended: the evaluator, automation and queue registries never
\* update or delete: every rule and queue present before a step is present
\* and unchanged after it.  The prompt registry keeps every repository and
\* every commit but for one case: load_guardrail_prompt_commits begins by
\* deleting the repository "guardrail-example", commits included, before it
\* pushes its commits again.
C12_OnlyGuardrailPromptDeleted ==
    [][/\ IsPrefix(rules, rules')
       /\ IsPrefix(queues, queues')
       /\ \A r \in RepoNames :
            repos[r].exists =>
                \/ /\ repos'[r].exists
                   /\ IsPrefix(repos[r].commits, repos'[r].commits)
                \/ /\ r = "guardrail-example"
                   /\ ppc' = "deleted"
                   /\ repos'[r] = NoRepo]_vars

C12_Witness ==
    /\ stage = "prompts"
    /\ ppc = "deleted"
    /\ pcalls[1].op = "delete"
    /\ pcalls[1].status = 200
    /\ pcalls[1].latest # None
    /\ repos["guardrail-example"] = NoRepo

\* C13 as claimed: every create call of a registry, a prompt commit push
\* included, comes after an existence check of the same pass, for the same
\* resource, that answered "absent"; after a check that answered "present"
\* no create call is issued for the resource.
C13_EveryCreateAfterAbsentCheck ==
    /\ \A n \in PushRequests :
        \E m \in PIssued("latest") : m < n /\ pcalls[m].status = 404
    /\ LookupAnswered({200}) => PushRequests = {}
    /\ \A k \in 1..NumEvaluators :
        /\ \A n \in VIssued("create", k) :
            \E m \in VIssued("exists", k) : m < n /\ vcalls[m].result = "absent"
        /\ (\E m \in VIssued("exists", k) : vcalls[m].result = "present")
            => VIssued("create", k) = {}
    /\ \A n \in QIssued("create_queue") :
        \E m \in QIssued("list_queues") : m < n /\ qcalls[m].result = "absent"
    /\ (\E m \in QIssued("list_queues") : qcalls[m].result = "present")
        => QIssued("create_queue") = {}
    /\ \A n \in QIssued("create_automation") :
        \E m \in QIssued("list_rules") : m < n /\ qcalls[m].result = "absent"
    /\ (\E m \in QIssued("list_rules") : qcalls[m].result = "present")
        => QIssued("create_automation") = {}

\* C13 as amended: every create-evaluator, create-queue and
\* create-automation call comes after an existence check of the same pass,
\* for the same name and scope, that answered "absent", and none is issued
\* after a check that answered "present".  A prompt commit push comes after
\* the latest-commit lookup of its repository whatever that lookup answered
\* (found, not found or failed): the prompt registry makes no existence
\* check and leaves it to the platform to refuse unchanged content.
C13_RuleAndQueueCreatesAfterAbsentCheck ==
    /\ \A n \in PushRequests : \E m \in PIssued("latest") : m < n
    /\ (ppc \in {"returned_ref", "returned_none"} /\ PIssued("settings") # {})
        => PIssued("push") # {}
    /\ \A k \in 1..NumEvaluators :
        /\ \A n \in VIssued("create", k) :
            \E m \in VIssued("exists", k) : m < n /\ vcalls[m].result = "absent"
        /\ (\E m \in VIssued("exists", k) : vcalls[m].result = "present")
            => VIssued("create", k) = {}
    /\ \A n \in QIssued("create_queue") :
        \E m \in QIssued("list_queues") : m < n /\ qcalls[m].result = "absent"
    /\ (\E m \in QIssued("list_queues") : qcalls[m].result = "present")
        => QIssued("create_queue") = {}
    /\ \A n \in QIssued("create_automation") :
        \E m \in QIssued("list_rules") : m < n /\ qcalls[m].result = "absent"
    /\ (\E m \in QIssued("list_rules") : qcalls[m].result = "present")
        => QIssued("create_automation") = {}

C13_Witness ==
    /\ stage = "automations"
    /\ qpc = "returned"
    /\ Len(qcalls) = 5
    /\ qcalls[2].op = "list_queues" /\ qcalls[2].result = "absent"
    /\ qcalls[3].op = "create_queue" /\ qcalls[3].result = "ok"
    /\ qcalls[4].op = "list_rules" /\ qcalls[4].result = "absent"
    /\ qcalls[5].op = "create_automation" /\ qcalls[5].result = "ok"
    /\ \E n \in 1..Len(rules) : rules[n].code_evaluators # <<>>

\* C14: when the listing request of evaluator_exists, automation_exists or
\* get_queue_id is answered with a status >= 300, the check ends in an
\* error, never in "absent" or "present": the registry function raises
\* there, and no create call is issued for the resource that was checked.
C14_ListingFailureIsError ==
    /\ (vlast.op = "exists" /\ vlast.status >= 300) =>
        /\ vlast.result = "error"
        /\ vpc = "raised"
        /\ VIssued("create", vlast.item) = {}
    /\ \A n \in 1..Len(vcalls) :
        (vcalls[n].op = "exists" /\ vcalls[n].result = "error") =>
            /\ n = Len(vcalls)
            /\ vpc = "raised"
    /\ \A n \in QIssued("list_queues") :
        qcalls[n].status >= 300 =>
            /\ qcalls[n].result = "error"
            /\ qpc = "raised"
            /\ QIssued("create_queue") = {}
    /\ \A n \in QIssued("list_rules") :
        qcalls[n].status >= 300 =>
            /\ qcalls[n].result = "error"
            /\ qpc = "raised"
            /\ QIssued("create_automation") = {}

C14_Witness ==
    /\ stage = "evaluators"
    /\ vpc = "raised"
    /\ vlast.op = "exists"
    /\ vlast.item = 2
    /\ vlast.status = 500
    /\ payloads[1] # NoPayload
    /\ rules = <<>>

\* C15 as claimed: a 404 answer to a lookup (prompt_exists,
\* evaluator_exists, automation_exists, get_queue_id) is reported as the
\* value "absent" and is never raised.
C15_NotFoundIsAbsent ==
    /\ (vlast.op \in {"verify", "exists"} /\ vlast.status = 404) =>
        /\ vlast.result = "absent"
        /\ vpc # "raised"
    /\ \A n \in QIssued("list_queues") \cup QIssued("list_rules") :
        qcalls[n].status = 404 =>
            /\ qcalls[n].result = "absent"
            /\ qpc # "raised"

\* C15 as amended: a 404 answer to the latest-commit request of
\* prompt_exists is reported as False, is never raised and leads to no
\* payload for the evaluator; a 404 answer to the listing request of
\* evaluator_exists, automation_exists or get_queue_id is raised as an
\* error, like every other status >= 300.
C15_NotFoundIsAbsentForPromptsOnly ==
    /\ (vlast.op = "verify" /\ vlast.status = 404) =>
        /\ vlast.result = "absent"
        /\ vlast.fallback = None
        /\ vpc # "raised"
        /\ payloads[vlast.item] = NoPayload
    /\ (vlast.op = "exists" /\ vlast.status = 404) =>
        /\ vlast.result = "error"
        /\ vpc = "raised"
    /\ \A n \in QIssued("list_queues") \cup QIssued("list_rules") :
        qcalls[n].status = 404 =>
            /\ qcalls[n].result = "error"
            /\ qpc = "raised"

C15_Witness ==
    /\ stage = "evaluators"
    /\ vlast.op = "verify"
    /\ vlast.status = 404
    /\ vlast.result = "absent"
    /\ vlast.item = 3
    /\ vpc = "resolve"
    /\ payloads[3] = NoPayload
    /\ prompts_present = {}

(***************************************************************************)
(* Properties of load_evaluators (under SpecEval).                         *)
(***************************************************************************)
\* The evaluators whose dataset or project did not resolve in this pass.
Unresolved ==
    {k \in 1..NumEvaluators : \E n \in VIssued("resolve", k) : vcalls[n].result = "absent"}

\* C16: when the dataset or project an evaluator names does not resolve,
\* its payload is None and neither an existence check nor a prompt lookup
\* nor a create call is issued for it; load_evaluators goes on to the next
\* evaluator, and it returns, with every evaluator attempted, unless a
\* lookup itself raises.
C16_UnresolvedTargetSkipsEvaluator ==
    /\ \A k \in Unresolved :
        /\ VIssued("exists", k) = {}
        /\ VIssued("verify", k) = {}
        /\ VIssued("create", k) = {}
        /\ payloads[k] = NoPayload
        /\ Evaluators[k].target_name \notin targets_resolved
    /\ \A n \in 1..(Len(vcalls) - 1) :
        (vcalls[n].op = "resolve" /\ vcalls[n].result = "absent"
            /\ vcalls[n].item < NumEvaluators) =>
                /\ vcalls[n + 1].op = "resolve"
                /\ vcalls[n + 1].item = vcalls[n].item + 1
    /\ (EvalEnded /\ \A n \in VFailed : vcalls[n].op = "create") =>
        /\ vpc = "returned"
        /\ \A k \in 1..NumEvaluators : VIssued("resolve", k) # {}

C16_Witness ==
    /\ vpc = "returned"
    /\ Unresolved = {1, 3}
    /\ VIssued("create", 2) # {}
    /\ VIssued("create", 5) # {}
    /\ Len(rules) = 3

\* The judge evaluators: the ones whose payload names a prompt reference.
Judges == {k \in 1..NumEvaluators : Evaluators[k].kind = "judge"}

\* C17: a judge evaluator that names a prompt reference is created only
\* after a lookup of that reference, earlier in the same pass, found it
\* (prompt_exists on the direct path, pull_prompt on the client path), and
\* the reference is then on the platform; when the reference does not
\* resolve, no create-evaluator call is issued for the evaluator.
C17_JudgeCreatedOnlyAfterPromptVerified ==
    \A k \in Judges :
        /\ \A n \in VIssued("create", k) :
            \E m \in VIssued("verify", k) : m < n /\ vcalls[m].result = "present"
        /\ payloads[k] # NoPayload =>
            \E m \in VIssued("verify", k) : vcalls[m].result = "present"
        /\ Evaluators[k].ref \notin prompts_present =>
            /\ VIssued("create", k) = {}
            /\ payloads[k] = NoPayload
            /\ \A m \in VIssued("verify", k) : vcalls[m].result = "absent"

C17_Witness ==
    /\ vpc = "returned"
    /\ use_api
    /\ prompts_present = {"email-agent-next-action-eval:latest"}
    /\ \E n \in VIssued("create", 1) : vcalls[n].result = "ok"
    /\ \E m \in VIssued("verify", 2) : vcalls[m].result = "absent"
    /\ VIssued("create", 2) = {}
    /\ VIssued("create", 3) = {}
    /\ \E m \in VIssued("verify", 3) : vcalls[m].result = "absent"

(***************************************************************************)
(* Properties of load_automations_and_queues (under SpecAuto).             *)
(***************************************************************************)
\* C18: every create-automation call carries the id of a queue that is on
\* the platform when the call is made, an id obtained earlier in the same
\* pass from a queue lookup that found the queue or from a queue creation
\* that succeeded; no automation is created with a null queue id.
C18_AutomationCarriesKnownQueue ==
    \A n \in QIssued("create_automation") :
        /\ qcalls[n].queue # None
        /\ qcalls[n].on_platform
        /\ \E m \in 1..(n - 1) :
            /\ qcalls[m].queue = qcalls[n].queue
            /\ \/ qcalls[m].op = "list_queues" /\ qcalls[m].result = "present"
               \/ qcalls[m].op = "create_queue" /\ qcalls[m].result = "ok"
        /\ \E q \in 1..Len(queues) :
            queues[q].id = qcalls[n].queue /\ queues[q].name = QueueName

C18_Witness ==
    /\ qpc = "returned"
    /\ qpass = 1
    /\ Len(qcalls) = 5
    /\ qcalls[3].op = "create_queue"
    /\ qcalls[3].queue = 2
    /\ qcalls[5].op = "create_automation"
    /\ qcalls[5].result = "ok"
    /\ qcalls[5].queue = 2
    /\ Len(queues) = 2

(***************************************************************************)
(* Properties of main (under SpecMain).                                    *)
(***************************************************************************)
\* The stages the claim names, in the order it gives them.
ClaimedOrder == <<"prompts", "evaluators", "experiments", "automations">>

\* Stage s has issued a remote call and has not returned.
Calling(s) ==
    \/ s = "prompts" /\ pcalls # <<>>
    \/ s = "evaluators" /\ vcalls # <<>>
    \/ s = "experiments" /\ calls # <<>>
    \/ s = "automations" /\ qcalls # <<>>

Returned(s) == \E n \in 1..Len(done) : done[n] = s

\* C19: in main the stages run in the order prompts, evaluators,
\* experiments, automations/queues, without overlap: while a stage is
\* issuing remote calls every earlier stage has returned, and no later stage
\* has issued a call or returned.
C19_StagesStrictlyInOrder ==
    \A a \in 1..Len(ClaimedOrder) :
        Calling(ClaimedOrder[a]) =>
            /\ ~Returned(ClaimedOrder[a])
            /\ \A b \in 1..(a - 1) :
                Returned(ClaimedOrder[b]) /\ ~Calling(ClaimedOrder[b])
            /\ \A b \in (a + 1)..Len(ClaimedOrder) :
                ~Returned(ClaimedOrder[b]) /\ ~Calling(ClaimedOrder[b])

C19_Witness ==
    /\ stage = "automations"
    /\ qpc = "create_automation"
    /\ QIssued("create_queue") # {}
    /\ done = <<"prompts", "datasets", "evaluators", "experiments">>
    /\ Len(rules) = 5
    /\ \E r \in RepoNames : repos[r].commits # <<>>

(***************************************************************************)
(* Order of the calls of one example (under SpecExp).                      *)
(***************************************************************************)
\* The call issued right before call n is `op` for example k.
Preceded(n, op, k) ==
    /\ n > 1
    /\ calls[n - 1].op = op
    /\ calls[n - 1].ex = k

\* C20: in the manual strategy the calls of each example are issued in the
\* order run-create, agent invocation, run-end, scoring, feedback-log, each
\* once and each right after the one before it has succeeded, and the
\* run-create of example k+1 is issued only after the feedback-log attempt
\* of example k has come back, successfully or not.
C20_ExampleCallsInOrder ==
    /\ \A n \in 1..Len(calls) :
        LET c == calls[n] IN
        /\ c.op = "invoke" => Preceded(n, "run_create", c.ex) /\ calls[n - 1].ok
        /\ c.op = "run_end" => Preceded(n, "invoke", c.ex) /\ calls[n - 1].ok
        /\ c.op = "feedback" =>
            /\ Preceded(n, "run_end", c.ex)
            /\ calls[n - 1].ok
            /\ c.score # NoScore
        /\ c.op = "run_create" /\ c.ex > 1 => Preceded(n, "feedback", c.ex - 1)
        /\ c.op \in {"run_create", "invoke", "run_end", "feedback"} =>
            /\ c.ex \in 1..Len(examples)
            /\ \A m \in 1..(n - 1) : ~(calls[m].op = c.op /\ calls[m].ex = c.ex)
    /\ epc = "score" =>
        /\ Preceded(Len(calls) + 1, "run_end", ex)
        /\ calls[Len(calls)].ok
    /\ epc = "feedback" =>
        /\ Preceded(Len(calls) + 1, "run_end", ex)
        /\ eval_res = evaluate_extra_steps(outputs, examples[ex])

C20_Witness ==
    \E m, n \in 1..Len(calls) :
        /\ m < n
        /\ calls[m].op = "feedback" /\ calls[m].ex = 1 /\ ~calls[m].ok
        /\ calls[n].op = "feedback" /\ calls[n].ex = 2
        /\ calls[m].score # calls[n].score
        /\ calls[m + 1].op = "run_create"

\* C21: in the manual strategy a failed run-create or run-end call for
\* example k makes run_trajectory_experiment raise: no feedback is logged
\* for example k, and no run-create, run-end or feedback call is issued for
\* any later example.
C21_RunFailureEndsExperiment ==
    \A n \in FailedCalls({"run_create", "run_end"}) :
        /\ epc = "raised"
        /\ \A m \in 1..Len(calls) :
            /\ calls[m].op = "feedback" => calls[m].ex < calls[n].ex
            /\ calls[m].op \in {"run_create", "run_end"} => calls[m].ex <= calls[n].ex

C21_Witness ==
    /\ Len(examples) = 2
    /\ epc = "raised"
    /\ \E n \in FailedCalls({"run_end"}) : calls[n].ex = 1 /\ n = Len(calls)

\* The calls of the per-example phase.
PerExampleOps == {"run_create", "run_end", "feedback"}

\* C22: the manual strategy goes PENDING -> SESSION_OPEN -> PER_EXAMPLE* ->
\* SESSION_CLOSED: a successful session-create call precedes every
\* run-create, run-end and feedback call, the session-close call comes after
\* the feedback attempt of every example and is the last call, and the
\* function returns only after it.
C22_SessionBracketsExamples ==
    /\ \A n \in 1..Len(calls) :
        /\ calls[n].op \in PerExampleOps \cup {"session_close"} =>
            \E m \in 1..(n - 1) : calls[m].op = "session_create" /\ calls[m].ok
        /\ calls[n].op = "session_close" =>
            /\ n = Len(calls)
            /\ \A k \in 1..Len(examples) :
                \E m \in 1..(n - 1) : calls[m].op = "feedback" /\ calls[m].ex = k
    /\ NumIssued("session_create") <= 1
    /\ NumIssued("session_close") <= 1
    /\ epc = "returned" => calls[Len(calls)].op = "session_close" /\ calls[Len(calls)].ok

C22_Witness ==
    /\ epc = "returned"
    /\ Len(examples) = 2
    /\ FailedCalls({"feedback"}) # {}
    /\ NumIssued("session_close") = 1

(***************************************************************************)
(* Failures of a prompt-commit push (under SpecPush).                      *)
(***************************************************************************)
\* C23: when the push answers a status >= 300 other than 409 and 404, or
\* the retried push answers a status >= 300 other than 409 (a second 404
\* included), api_push_prompt_commit raises at that request and returns no
\* reference.
C23_PushFailureRaises ==
    \A n \in 1..Len(pcalls) :
        (\/ /\ pcalls[n].op = "push"
            /\ pcalls[n].status >= 300
            /\ pcalls[n].status \notin {409, 404}
         \/ /\ pcalls[n].op = "retry"
            /\ pcalls[n].status >= 300
            /\ pcalls[n].status # 409)
        => /\ n = Len(pcalls)
           /\ ppc = "raised"
           /\ history # <<>>
           /\ history[Len(history)].result = "raise"
           /\ history[Len(history)].repo = repo

C23_Witness ==
    /\ ppc = "raised"
    /\ \E n \in PIssued("retry") : pcalls[n].status = 404
    /\ \E n \in PIssued("create_repo") : pcalls[n].status = 201

(***************************************************************************)
(* load_prompt under the two transports (under SpecLoadPrompt).            *)
(***************************************************************************)
\* The requests of the current call that push the commit.
Pushes == PIssued("push") \cup PIssued("retry") \cup PIssued("client_push")

\* The content pushed by the current call is what the repository held last
\* when the call first pushed.
Unchanged ==
    \E n \in PIssued("push") \cup PIssued("client_push") :
        pcalls[n].latest_manifest = manifest

\* Every request of the current call was answered as the platform's state demands.
AnsweredFaithfully == \A n \in 1..Len(pcalls) : pcalls[n].faithful

\* C24: under both transports load_prompt maps a conflict (409 on the
\* direct path, the conflict error of the client) to the return value None
\* without raising, and returns a reference whenever a new commit was
\* created; so for the same platform state the call returns None exactly
\* when the content is unchanged, whichever transport carried it.
C24_TransportsAgreeOnOutcome ==
    /\ \A n \in Pushes :
        /\ pcalls[n].status = 409 => ppc = "returned_none"
        /\ pcalls[n].status = 200 => ppc = "returned_ref"
    /\ (PushEnded /\ Pushes # {} /\ AnsweredFaithfully) =>
        /\ ppc # "raised"
        /\ ppc = "returned_none" <=> Unchanged

C24_Witness ==
    /\ ppc = "returned_none"
    /\ PIssued("client_push") # {}
    /\ Len(history) = 2
    /\ history[1].result = "ref"
    /\ history[1].repo = repo
    /\ history[1].manifest = manifest
    /\ ~repos[repo].exists \/ Len(repos[repo].commits) = 1

(***************************************************************************)
(* Operations without an API key (under SpecAuth).                         *)
(***************************************************************************)
\* C25: with no API key configured, every direct-API operation ends in an
\* error and sends no HTTP request; none of them returns a normal value.
C25_NoKeyIsFatal ==
    ~api_key => /\ sent = 0
                /\ kpc # "returned"

(***************************************************************************)
(* The existence scans (under SpecScan).                                   *)
(***************************************************************************)
\* The scope field the query compares (dataset_id or session_id).
ScopeId(rule, target_type) ==
    IF target_type = "dataset" THEN rule.dataset_id ELSE rule.session_id

\* C27: evaluator_exists(name, target_type, target_id) and
\* automation_exists(name, project_id) return true if and only if a listed
\* rule has exactly that display_name, the requested id in its scope field
\* (dataset_id or session_id according to the scope) and a non-empty
\* evaluators or code_evaluators body; an empty listing, a name that only
\* contains the searched one, another scope and an empty shell give false.
C27_ExistsIffExactScopedBody ==
    squery # NoQuery =>
        (sres = "true" <=>
            \E n \in 1..Len(rules) :
                /\ rules[n].display_name = squery.name
                /\ ScopeId(rules[n], squery.target_type) = squery.target_id
                /\ (rules[n].evaluators # <<>> \/ rules[n].code_evaluators # <<>>))

C27_Witness ==
    /\ squery.fn = "evaluator_exists"
    /\ squery.target_type = "dataset"
    /\ squery.target_id = 1
    /\ sres = "false"
    /\ Len(rules) = 2
    /\ rules[1].display_name = "correctness" /\ rules[1].dataset_id = 1
    /\ rules[1].evaluators = <<>> /\ rules[1].code_evaluators = <<>>
    /\ rules[2].display_name = "correctness-strict" /\ rules[2].evaluators # <<>>

(***************************************************************************)
(* Evaluator payloads and request bodies (under SpecEvalOnce).             *)
(***************************************************************************)
\* Exactly one of two conditions holds.
ExactlyOne(a, b) == (a /\ ~b) \/ (~a /\ b)

C30_BodyCarriesPayloadFields ==
    body # NoBody =>
        \A k \in PayloadKeys :
            ~Unset(k, payloads[vlast.item]) =>
                /\ k \in DOMAIN body
                /\ body[k] = payloads[vlast.item][k]

(***************************************************************************)
(* extract_tool_calls (under SpecExtract).                                 *)
(***************************************************************************)
RECURSIVE CallsBefore(_)
\* The number of tool calls of the first k messages.
CallsBefore(k) ==
    IF k = 0 THEN 0 ELSE CallsBefore(k - 1) + Len(messages[k].tool_calls)

\* Names without an upper-case letter, and names equal up to case.
LowerCaseNames == {"write_email", "done"}
SameUpToCase(a, b) ==
    \/ a = b
    \/ {a, b} \in {{"write_email", "Write_Email"}, {"done", "DONE"}}

\* C28: extract_tool_calls returns the lower-cased names of all tool calls,
\* in message order and in call order within each message: as many names as
\* there are calls, duplicates kept, nothing for a message without calls.
\* (Stated of every iteration: the calls of the messages gone through so far.)
C28_NamesInOrderLowered ==
    xpc \in {"loop", "returned"} =>
        /\ Len(tool_call_names) = CallsBefore(mi - 1)
        /\ \A m \in 1..(mi - 1) :
            \A c \in 1..Len(messages[m].tool_calls) :
                /\ tool_call_names[CallsBefore(m - 1) + c] \in LowerCaseNames
                /\ SameUpToCase(tool_call_names[CallsBefore(m - 1) + c],
                                messages[m].tool_calls[c])
        /\ xpc = "returned" => mi = Len(messages) + 1

C28_Witness ==
    /\ xpc = "returned"
    /\ Len(messages) = 3
    /\ messages[2].tool_calls = <<>>
    /\ tool_call_names = <<"write_email", "write_email", "done">>

(***************************************************************************)
(* The batched strategy under concurrency (under SpecBatch).               *)
(***************************************************************************)
\* C26: in the batched strategy, with several workers running
\* run_email_assistant and evaluate_extra_steps at once, the functions share
\* no in-process state: under every interleaving the trajectory handed back
\* for an example is the one the agent gave for that example, and its score
\* is the score evaluate_extra_steps gives that trajectory on its own.
C26_WorkersDoNotInterfere ==
    \A e \in 1..Len(bexamples) :
        runs[e].score # NoScore =>
            /\ runs[e].trajectory = runs[e].answer
            /\ runs[e].score = evaluate_extra_steps(runs[e].answer, bexamples[e])

C26_Witness ==
    /\ Len(bexamples) = 2
    /\ runs[1].score # NoScore
    /\ runs[2].score # NoScore
    /\ runs[1].score # runs[2].score
    /\ runs[1].answer # runs[2].answer
    /\ \E w \in Workers : worker[w].pc = "idle" /\ frame[w].j > 0
    /\ \A w \in Workers : frame[w].outputs # <<>>

(***************************************************************************)
(* Properties of the latest-commit lookup (under SpecPush).                *)
(***************************************************************************)
LookupFailed ==
    \E n \in PIssued("latest") : pcalls[n].status # 200

\* C31: in api_push_prompt_commit a failure of the latest-commit lookup (a
\* status other than 200, or a raised transport exception) is not fatal:
\* the push is still issued, exactly once, without a parent_commit, and the
\* call never ends on the lookup (when it raises, it raises on the answer
\* to a later request).
C31_LookupFailureIsNotFatal ==
    LookupFailed =>
        /\ ppc # "push" => Cardinality(PIssued("push")) = 1
        /\ \A n \in PushRequests : pcalls[n].parent = None
        /\ PushEnded => pcalls[Len(pcalls)].op \in {"push", "create_repo", "retry"}
        /\ ppc = "raised" => pcalls[Len(pcalls)].status >= 300

C31_Witness ==
    /\ ppc = "returned_ref"
    /\ \E n \in PIssued("latest") : pcalls[n].status = Exception /\ pcalls[n].latest # None
    /\ Cardinality(PIssued("push")) = 1
    /\ PIssued("retry") = {}
    /\ \A n \in PIssued("push") : pcalls[n].parent = None /\ pcalls[n].status = 200

(***************************************************************************)
(* The score of the Trajectory Aligner in closed form (under SpecAlign).   *)
(***************************************************************************)
\* p occurs in s as an in-order subsequence: its steps are found in s at
\* strictly increasing positions.
IsSubsequence(p, s) ==
    \E f \in [1..Len(p) -> 1..Len(s)] :
        /\ \A a, b \in 1..Len(p) : a < b => f[a] < f[b]
        /\ \A a \in 1..Len(p) : p[a] = s[f[a]]

\* The length of the longest prefix of ref that occurs in obs as an in-order
\* subsequence.
LongestPrefixWithin(ref, obs) ==
    CHOOSE m \in 0..Len(ref) :
        /\ IsSubsequence(SubSeq(ref, 1, m), obs)
        /\ \A k \in (m + 1)..Len(ref) : ~IsSubsequence(SubSeq(ref, 1, k), obs)

\* C32: evaluate_extra_steps returns len(observed) - m, where m is the
\* length of the longest prefix of reference that occurs as an in-order
\* subsequence of observed; the score lies between 0 and len(observed), and
\* an observed sequence that is the reference with k actions inserted scores
\* k.  While the loop runs, i is that length for the observed steps read so
\* far and every other step read has been charged.
C32_ScoreIsLengthMinusMatchedPrefix ==
    /\ evaluate_extra_steps(observed, reference)
         = Len(observed) - LongestPrefixWithin(reference, observed)
    /\ apc = "loop" =>
        /\ i = LongestPrefixWithin(reference, SubSeq(observed, 1, j))
        /\ unmatched_steps = j - i
    /\ apc = "returned" =>
        /\ unmatched_steps = Len(observed) - LongestPrefixWithin(reference, observed)
        /\ unmatched_steps >= 0
        /\ unmatched_steps <= Len(observed)
        /\ IsSubsequence(reference, observed)
             => unmatched_steps = Len(observed) - Len(reference)

C32_Witness ==
    /\ apc = "returned"
    /\ reference = <<"write_email", "done">>
    /\ observed = <<"write_email", "schedule_meeting", "done">>
    /\ LongestPrefixWithin(reference, observed) = 2
    /\ unmatched_steps = 1

\* C33: evaluate_extra_steps returns score 0 if and only if observed is a
\* prefix of reference: an observed sequence longer than the reference, or
\* differing from it at some position below len(observed), scores at least 1.
C33_ZeroIffPrefix ==
    /\ evaluate_extra_steps(observed, reference) = 0 <=> IsPrefix(observed, reference)
    /\ apc = "returned" =>
        /\ unmatched_steps = 0 <=> IsPrefix(observed, reference)
        /\ Len(observed) > Len(reference) => unmatched_steps >= 1
        /\ (\E n \in 1..Len(observed) : n <= Len(reference) /\ observed[n] # reference[n])
             => unmatched_steps >= 1

C33_Witness ==
    /\ apc = "returned"
    /\ Len(observed) = 2
    /\ Len(reference) = 3
    /\ observed[1] = reference[1]
    /\ observed[2] # reference[2]
    /\ observed[2] = reference[3]
    /\ unmatched_steps = 1

(***************************************************************************)
(* Runs and their feedback in the manual strategy (under SpecExp).         *)
(***************************************************************************)
\* The runs the platform holds, and those of them it holds as ended.
CreatedRuns == {calls[n].run : n \in {m \in Issued("run_create") : calls[m].ok}}
EndedRuns == {calls[n].run : n \in {m \in Issued("run_end") : calls[m].ok}}
OpenRuns == CreatedRuns \ EndedRuns

\* Run r is open when call n is issued: created before it, and no run-end
\* call has named it since.
OpenAt(r, n) ==
    \E m \in 1..(n - 1) :
        /\ calls[m].op = "run_create" /\ calls[m].ok /\ calls[m].run = r
        /\ \A k \in (m + 1)..(n - 1) : ~(calls[k].op = "run_end" /\ calls[k].run = r)

\* C34: in the manual strategy at most one run is open (created but not
\* ended) in every reachable state, every run-end call targets a run that
\* was created earlier and is still open, and no run is ended more than once.
C34_OneOpenRunEndedOnce ==
    /\ Cardinality(OpenRuns) <= 1
    /\ \A n \in Issued("run_end") : OpenAt(calls[n].run, n)
    /\ \A n, m \in Issued("run_end") : calls[n].run = calls[m].run => n = m

C34_Witness ==
    /\ epc = "end_run"
    /\ ex = 2
    /\ EndedRuns = {1}
    /\ OpenRuns = {2}

\* The run-create call that opens the iteration call n belongs to: the last
\* one before it.
IterationStart(n) ==
    CHOOSE m \in 0..(n - 1) :
        /\ m # 0 => calls[m].op = "run_create"
        /\ \A k \in (m + 1)..(n - 1) : calls[k].op # "run_create"

\* C35: in the manual strategy every feedback-log call carries the id of the
\* run created for the same example in the same iteration, and a score equal
\* to evaluate_extra_steps applied to that run's outputs and that example's
\* reference outputs; no feedback is logged against a run of another example
\* or against a run that has not been ended.
C35_FeedbackGoesToItsOwnEndedRun ==
    \A n \in Issued("feedback") :
        LET m == IterationStart(n) IN
        /\ m # 0
        /\ calls[m].ok /\ calls[m].run = calls[n].run /\ calls[m].ex = calls[n].ex
        /\ \A k \in Issued("run_create") :
              calls[k].run = calls[n].run => calls[k].ex = calls[n].ex
        /\ \E k \in (m + 1)..(n - 1) :
              calls[k].op = "run_end" /\ calls[k].ok /\ calls[k].run = calls[n].run
        /\ (\A k \in (n + 1)..Len(calls) : calls[k].op # "invoke")
              => calls[n].score = evaluate_extra_steps(outputs, examples[calls[n].ex])

C35_Witness ==
    /\ epc = "loop"
    /\ Cardinality(Issued("feedback")) = 2
    /\ examples[1] # examples[2]
    /\ \E n \in Issued("feedback") :
          /\ calls[n].ex = 2 /\ calls[n].run = 2 /\ calls[n].score = 2
          /\ evaluate_extra_steps(outputs, examples[1]) # calls[n].score

\* C36: in the manual strategy, when the dataset name does not resolve to an
\* id, run_trajectory_experiment raises before any session is created: no
\* session-create, run-create, run-end, feedback or session-close call is
\* issued, and the function never returns.
C36_UnknownDatasetRaisesFirst ==
    ~dataset_found =>
        /\ epc \in {"idle", "get_dataset", "raised"}
        /\ \A n \in 1..Len(calls) : calls[n].op = "get_dataset"
        /\ session_id = None
        /\ run_summaries = <<>>

C36_Witness ==
    /\ ~dataset_found
    /\ examples # <<>>
    /\ epc = "raised"
    /\ Len(calls) = 1
    /\ calls[1].op = "get_dataset"
    /\ calls[1].ok

(***************************************************************************)
(* The repository creation after a 404 (under SpecPush).                   *)
(***************************************************************************)
\* C37: in api_push_prompt_commit, after a 404 on the first push: when the
\* repository-creation call answers a status other than 200, 201 or 409 the
\* function raises at once and issues no retried push; when it answers 409
\* (the repository exists already) the retried push is still issued, exactly
\* once, and its answer decides the outcome.
C37_CreationAnswerDecidesRetry ==
    \A n \in PIssued("create_repo") :
        /\ n > 1 /\ pcalls[n - 1].op = "push" /\ pcalls[n - 1].status = 404
        /\ pcalls[n].status \notin {200, 201, 409} =>
            /\ ppc = "raised"
            /\ n = Len(pcalls)
            /\ PIssued("retry") = {}
        /\ pcalls[n].status = 409 =>
            /\ ppc # "raised" \/ PIssued("retry") # {}
            /\ IF ppc = "retry"
               THEN PIssued("retry") = {}
               ELSE /\ PIssued("retry") = {n + 1}
                    /\ n + 1 = Len(pcalls)
                    /\ ppc = AfterRetry(pcalls[n + 1].status)

C37_Witness ==
    /\ ppc = "returned_ref"
    /\ FirstPushNotFound
    /\ CreateRepoAnswered({409})
    /\ \E n \in PIssued("retry") : pcalls[n].status = 200 /\ pcalls[n].faithful
    /\ Cardinality(PIssued("retry")) = 1

=============================================================================
